---- MODULE Spec2Model ----
(***************************************************************************)
(* Model of the tree-walking evaluator of src/src/interpreter.rs: the      *)
(* scope stack (struct Variables), interpret_expression as a recursive     *)
(* operator that threads the scope stack and reports panics as faults, and *)
(* interpret / interpret_statement as a state machine over the pending     *)
(* statements (the recursion of interpret_statement made explicit).        *)
(***************************************************************************)
EXTENDS Integers, Sequences, FiniteSets, TLC

(***************************************************************************)
(* Values (tokenizer::Value).  A value is a tagged tuple, tag first.       *)
(* Number is modelled over the integers; a String is the sequence of its   *)
(* code points; a Tuple holds the sequence of its element values.          *)
(***************************************************************************)
Number(n) == <<"Number", n>>
String(s) == <<"String", s>>
Boolean(b) == <<"Boolean", b>>
Tuple(values) == <<"Tuple", values>>

IsNumber(v) == v[1] = "Number"
IsString(v) == v[1] = "String"
IsBoolean(v) == v[1] = "Boolean"
IsTuple(v) == v[1] = "Tuple"

(* Option<Value>, as returned by HashMap::get / get_variable. *)
None == <<"None">>
Some(v) == <<"Some", v>>

(***************************************************************************)
(* Expression and statement nodes (parser::ExpressionType, StatementType). *)
(* A tuple index is the usize of the source, counted from 0.  The optional *)
(* else branch of an If is a sequence of length 0 or 1.                    *)
(***************************************************************************)
Unary(operation, expression) == <<"Unary", operation, expression>>
Binary(operation, left_expression, right_expression) ==
    <<"Binary", operation, left_expression, right_expression>>
Variable(variable) == <<"Variable", variable>>
Literal(value) == <<"Literal", value>>
Grouping(expression) == <<"Grouping", expression>>
TupleExpression(expressions) == <<"Tuple", expressions>>
TupleAccess(expression, index) == <<"TupleAccess", expression, index>>

Expression(expression) == <<"Expression", expression>>
VariableDeclaration(variable, value) == <<"VariableDeclaration", variable, value>>
Block(statements) == <<"Block", statements>>
If(expression, then_statement, else_statement) ==
    <<"If", expression, then_statement, else_statement>>
While(expression, statement) == <<"While", expression, statement>>

(***************************************************************************)
(* HashMap<String, Value>: a function from the names it holds.             *)
(***************************************************************************)
EmptyMap == [n \in {} |-> None]
contains_key(map, key) == key \in DOMAIN map
get(map, key) == IF key \in DOMAIN map THEN Some(map[key]) ELSE None
insert(map, key, value) ==
    [n \in (DOMAIN map) \cup {key} |-> IF n = key THEN value ELSE map[n]]

(***************************************************************************)
(* struct Variables: the caller's global table and the stack of block      *)
(* tables, innermost last.                                                 *)
(***************************************************************************)
Variables(globals, envs) == [global_variables |-> globals, environments |-> envs]

(* Mutant: a Block pushes two tables. *)
push_environment_twice(variables) ==
    [variables EXCEPT !.environments = Append(Append(@, EmptyMap), EmptyMap)]

push_environment(variables) ==
    [variables EXCEPT !.environments = Append(@, EmptyMap)]

(* Mutant: the block's table is left on the stack. *)
pop_environment_keeps(variables) == variables

pop_environment(variables) ==
    [variables EXCEPT !.environments =
        IF Len(@) = 0 THEN @ ELSE SubSeq(@, 1, Len(@) - 1)]

(* The loop `for environment in self.environments.iter().rev()` of        *)
(* get_variable, at position i (Len .. 1), then the global table.         *)
RECURSIVE get_variable_from(_, _, _)
get_variable_from(variables, i, variable) ==
    IF i = 0
    THEN get(variables.global_variables, variable)
    ELSE IF contains_key(variables.environments[i], variable)
         THEN Some(variables.environments[i][variable])
         ELSE get_variable_from(variables, i - 1, variable)

(* Mutant: the global table is searched first. *)
get_variable_global_first(variables, variable) ==
    IF contains_key(variables.global_variables, variable)
    THEN Some(variables.global_variables[variable])
    ELSE get_variable_from(variables, Len(variables.environments), variable)

get_variable(variables, variable) ==
    get_variable_from(variables, Len(variables.environments), variable)

(* Mutant: the loop of set_variable from the outermost table inwards; i    *)
(* counts the tables still to search.                                      *)
RECURSIVE set_variable_outermost_first(_, _, _, _)
set_variable_outermost_first(variables, i, variable, value) ==
    LET k == Len(variables.environments) + 1 - i
    IN  IF i = 0
        THEN IF contains_key(variables.global_variables, variable)
             THEN [ok |-> TRUE,
                   variables |-> [variables EXCEPT !.global_variables =
                                      insert(@, variable, value)]]
             ELSE [ok |-> FALSE, variables |-> variables]
        ELSE IF contains_key(variables.environments[k], variable)
             THEN [ok |-> TRUE,
                   variables |-> [variables EXCEPT !.environments[k] =
                                      insert(@, variable, value)]]
             ELSE set_variable_outermost_first(variables, i - 1, variable, value)

(* The loop of set_variable at position i, then the global table.         *)
(* The result is [ok, variables]: Ok(()) or Err(()) and the tables after.  *)
RECURSIVE set_variable_from(_, _, _, _)
set_variable_from(variables, i, variable, value) ==
    IF i = 0
    THEN IF contains_key(variables.global_variables, variable)
         THEN [ok |-> TRUE,
               variables |-> [variables EXCEPT !.global_variables =
                                  insert(@, variable, value)]]
         ELSE [ok |-> FALSE, variables |-> variables]
    ELSE IF contains_key(variables.environments[i], variable)
         THEN [ok |-> TRUE,
               variables |-> [variables EXCEPT !.environments[i] =
                                  insert(@, variable, value)]]
         ELSE set_variable_from(variables, i - 1, variable, value)

(* Mutant: an assignment to a name no table holds creates it globally. *)
set_variable_creates(variables, variable, value) ==
    IF set_variable_from(variables, Len(variables.environments), variable, value).ok
    THEN set_variable_from(variables, Len(variables.environments), variable, value)
    ELSE [ok |-> TRUE,
          variables |-> [variables EXCEPT !.global_variables =
                             insert(@, variable, value)]]

set_variable(variables, variable, value) ==
    set_variable_from(variables, Len(variables.environments), variable, value)

(* Mutant: a declaration of a name some table holds updates that binding. *)
create_variable_updates(variables, variable, value) ==
    IF set_variable(variables, variable, value).ok
    THEN set_variable(variables, variable, value).variables
    ELSE IF Len(variables.environments) > 0
    THEN [variables EXCEPT !.environments[Len(variables.environments)] =
              insert(@, variable, value)]
    ELSE [variables EXCEPT !.global_variables = insert(@, variable, value)]

(* Mutant: every declaration goes to the global table. *)
create_variable_global(variables, variable, value) ==
    [variables EXCEPT !.global_variables = insert(@, variable, value)]

create_variable(variables, variable, value) ==
    IF Len(variables.environments) > 0
    THEN [variables EXCEPT !.environments[Len(variables.environments)] =
              insert(@, variable, value)]
    ELSE [variables EXCEPT !.global_variables = insert(@, variable, value)]

(***************************************************************************)
(* Result of interpret_expression: the value and the tables after the      *)
(* evaluation, or the panic that ended it and the tables at the panic.     *)
(* unreachable!() is a TypeFault, unwrap() of a missing variable an        *)
(* UndefinedVariable, an index past the end of a Vec an IndexOutOfRange.   *)
(***************************************************************************)
NoValue == <<"NoValue">>
Ok(value, variables) == [fault |-> "none", value |-> value, variables |-> variables]
Fault(kind, variables) == [fault |-> kind, value |-> NoValue, variables |-> variables]
IsOk(result) == result.fault = "none"

(* String comparison of Rust: lexicographic on the code points. *)
RECURSIVE StringLess(_, _)
StringLess(left, right) ==
    IF Len(right) = 0 THEN FALSE
    ELSE IF Len(left) = 0 THEN TRUE
    ELSE IF Head(left) # Head(right) THEN Head(left) < Head(right)
    ELSE StringLess(Tail(left), Tail(right))

(* The match on (left_value, right_value) of each arm of Binary that      *)
(* evaluates both operands first (interpreter.rs 147-255).                 *)
Numbers(left, right) == IsNumber(left) /\ IsNumber(right)
Strings(left, right) == IsString(left) /\ IsString(right)
Booleans(left, right) == IsBoolean(left) /\ IsBoolean(right)

Add(left, right, variables) ==
    IF Numbers(left, right) THEN Ok(Number(left[2] + right[2]), variables)
    ELSE IF Strings(left, right) THEN Ok(String(left[2] \o right[2]), variables)
    ELSE Fault("TypeFault", variables)

Subtract(left, right, variables) ==
    IF Numbers(left, right) THEN Ok(Number(left[2] - right[2]), variables)
    ELSE Fault("TypeFault", variables)

Multiply(left, right, variables) ==
    IF Numbers(left, right) THEN Ok(Number(left[2] * right[2]), variables)
    ELSE Fault("TypeFault", variables)

(* f64 division.  Over the integers of the model only an exact quotient   *)
(* is a Number of the model; any other quotient (inexact, infinite, NaN)   *)
(* ends the evaluation as "OutsideModel" and is never generated.           *)
Divide(left, right, variables) ==
    IF Numbers(left, right)
    THEN IF right[2] # 0 /\ left[2] % right[2] = 0
         THEN Ok(Number(left[2] \div right[2]), variables)
         ELSE Fault("OutsideModel", variables)
    ELSE Fault("TypeFault", variables)

(* Mutant: Equal accepts every pair and compares structurally. *)
Equal_any(left, right, variables) ==
    IF left[1] = right[1] THEN Ok(Boolean(left[2] = right[2]), variables)
    ELSE Ok(Boolean(FALSE), variables)

(* Mutant: Less orders Booleans, false before true. *)
Less_booleans(left, right, variables) ==
    IF Numbers(left, right) THEN Ok(Boolean(left[2] < right[2]), variables)
    ELSE IF Strings(left, right)
         THEN Ok(Boolean(StringLess(left[2], right[2])), variables)
    ELSE IF Booleans(left, right) THEN Ok(Boolean(~left[2] /\ right[2]), variables)
    ELSE Fault("TypeFault", variables)

Equal(left, right, variables) ==
    IF Numbers(left, right) \/ Strings(left, right) \/ Booleans(left, right)
    THEN Ok(Boolean(left[2] = right[2]), variables)
    ELSE Fault("TypeFault", variables)

NotEqual(left, right, variables) ==
    IF Numbers(left, right) \/ Strings(left, right) \/ Booleans(left, right)
    THEN Ok(Boolean(left[2] # right[2]), variables)
    ELSE Fault("TypeFault", variables)

Less(left, right, variables) ==
    IF Numbers(left, right) THEN Ok(Boolean(left[2] < right[2]), variables)
    ELSE IF Strings(left, right)
         THEN Ok(Boolean(StringLess(left[2], right[2])), variables)
    ELSE Fault("TypeFault", variables)

LessEqual(left, right, variables) ==
    IF Numbers(left, right) THEN Ok(Boolean(left[2] <= right[2]), variables)
    ELSE IF Strings(left, right)
         THEN Ok(Boolean(~StringLess(right[2], left[2])), variables)
    ELSE Fault("TypeFault", variables)

Greater(left, right, variables) ==
    IF Numbers(left, right) THEN Ok(Boolean(left[2] > right[2]), variables)
    ELSE IF Strings(left, right)
         THEN Ok(Boolean(StringLess(right[2], left[2])), variables)
    ELSE Fault("TypeFault", variables)

GreaterEqual(left, right, variables) ==
    IF Numbers(left, right) THEN Ok(Boolean(left[2] >= right[2]), variables)
    ELSE IF Strings(left, right)
         THEN Ok(Boolean(~StringLess(left[2], right[2])), variables)
    ELSE Fault("TypeFault", variables)

StrictOperations ==
    {"Add", "Subtract", "Multiply", "Divide", "Equal", "NotEqual",
     "Less", "LessEqual", "Greater", "GreaterEqual"}

ApplyBinary(operation, left, right, variables) ==
    CASE operation = "Add" -> Add(left, right, variables)
      [] operation = "Subtract" -> Subtract(left, right, variables)
      [] operation = "Multiply" -> Multiply(left, right, variables)
      [] operation = "Divide" -> Divide(left, right, variables)
      [] operation = "Equal" -> Equal(left, right, variables)
      [] operation = "NotEqual" -> NotEqual(left, right, variables)
      [] operation = "Less" -> Less(left, right, variables)
      [] operation = "LessEqual" -> LessEqual(left, right, variables)
      [] operation = "Greater" -> Greater(left, right, variables)
      [] operation = "GreaterEqual" -> GreaterEqual(left, right, variables)

(***************************************************************************)
(* The target of a tuple-element assignment (interpreter.rs 279-307).      *)
(* tuple_access_chain walks the chain of TupleAccess nodes towards its     *)
(* root, pushing each index: indices holds the outermost index first.      *)
(***************************************************************************)
RECURSIVE tuple_access_chain(_, _)
tuple_access_chain(current_expression, indices) ==
    IF current_expression[1] = "TupleAccess"
    THEN tuple_access_chain(current_expression[2],
                            Append(indices, current_expression[3]))
    ELSE [root |-> current_expression, indices |-> indices]

(* Mutant: the indices are walked in the order they were pushed. *)
Reverse_not(s) == s

Reverse(s) == [i \in 1..Len(s) |-> s[Len(s) + 1 - i]]

(* The loop `for &index in indices.iter().rev()` followed by               *)
(* `*lvalue = value.clone()`, on the copy variable_value: path is the      *)
(* index path still to walk, root-most index first.                        *)
RECURSIVE rewrite_element(_, _, _)
rewrite_element(lvalue, path, value) ==
    IF Len(path) = 0 THEN [fault |-> "none", value |-> value]
    ELSE IF ~IsTuple(lvalue) THEN [fault |-> "TypeFault", value |-> NoValue]
    ELSE IF Head(path) >= Len(lvalue[2])
         THEN [fault |-> "IndexOutOfRange", value |-> NoValue]
    ELSE LET inner == rewrite_element(lvalue[2][Head(path) + 1], Tail(path), value)
         IN  IF inner.fault # "none" THEN inner
             ELSE [fault |-> "none",
                   value |-> Tuple([lvalue[2] EXCEPT ![Head(path) + 1] = inner.value])]

(***************************************************************************)
(* interpret_expression (interpreter.rs 119-332).                          *)
(***************************************************************************)
RECURSIVE interpret_expression(_, _)
RECURSIVE interpret_elements(_, _, _)
RECURSIVE interpret_elements_right_to_left(_, _, _)

(* Mutant: the elements are evaluated from the last to the first. *)
interpret_elements_right_to_left(expressions, values, variables) ==
    IF Len(expressions) = 0 THEN Ok(Tuple(values), variables)
    ELSE LET last == interpret_expression(expressions[Len(expressions)], variables)
         IN  IF ~IsOk(last) THEN last
             ELSE interpret_elements_right_to_left(
                      SubSeq(expressions, 1, Len(expressions) - 1),
                      <<last.value>> \o values, last.variables)

(* `expressions.iter().map(|e| interpret_expression(e, variables))         *)
(* .collect()`: the elements in order, values collects the results.        *)
interpret_elements(expressions, values, variables) ==
    IF Len(expressions) = 0 THEN Ok(Tuple(values), variables)
    ELSE LET first == interpret_expression(Head(expressions), variables)
         IN  IF ~IsOk(first) THEN first
             ELSE interpret_elements(Tail(expressions),
                                     Append(values, first.value), first.variables)

(* Arm Unary (121-141). *)
interpret_unary(operation, expression, variables) ==
    LET operand == interpret_expression(expression, variables)
    IN  IF ~IsOk(operand) THEN operand
        ELSE IF operation = "Minus"
             THEN IF IsNumber(operand.value)
                  THEN Ok(Number(0 - operand.value[2]), operand.variables)
                  ELSE Fault("TypeFault", operand.variables)
             ELSE IF IsBoolean(operand.value)
                  THEN Ok(Boolean(~operand.value[2]), operand.variables)
                  ELSE Fault("TypeFault", operand.variables)

(* Arms Add .. GreaterEqual (147-255): left, then right, then the match.   *)
interpret_strict(operation, left_expression, right_expression, variables) ==
    LET left == interpret_expression(left_expression, variables)
    IN  IF ~IsOk(left) THEN left
        ELSE LET right == interpret_expression(right_expression, left.variables)
             IN  IF ~IsOk(right) THEN right
                 ELSE ApplyBinary(operation, left.value, right.value, right.variables)

(* Mutant: Or requires a Boolean left operand. *)
interpret_or_boolean(left_expression, right_expression, variables) ==
    LET left == interpret_expression(left_expression, variables)
    IN  IF ~IsOk(left) THEN left
        ELSE IF ~IsBoolean(left.value) THEN Fault("TypeFault", left.variables)
        ELSE IF left.value[2] THEN left
        ELSE interpret_expression(right_expression, left.variables)

(* Mutant: And evaluates both operands. *)
interpret_and_eager(left_expression, right_expression, variables) ==
    LET left == interpret_expression(left_expression, variables)
    IN  IF ~IsOk(left) THEN left
        ELSE LET right == interpret_expression(right_expression, left.variables)
             IN  IF ~IsOk(right) THEN right
                 ELSE IF left.value = Boolean(FALSE) THEN Ok(left.value, right.variables)
                 ELSE right

(* Arm Or (256-263). *)
interpret_or(left_expression, right_expression, variables) ==
    LET left == interpret_expression(left_expression, variables)
    IN  IF ~IsOk(left) THEN left
        ELSE IF left.value = Boolean(TRUE) THEN left
        ELSE interpret_expression(right_expression, left.variables)

(* Arm And (264-271). *)
interpret_and(left_expression, right_expression, variables) ==
    LET left == interpret_expression(left_expression, variables)
    IN  IF ~IsOk(left) THEN left
        ELSE IF left.value = Boolean(FALSE) THEN left
        ELSE interpret_expression(right_expression, left.variables)

(* Assignment to a Variable (275-278). *)
assign_variable(variable, value, variables) ==
    LET set == set_variable(variables, variable, value)
    IN  IF set.ok THEN Ok(value, set.variables)
        ELSE Fault("UndefinedVariable", variables)

(* Mutant: the rewrite is done in place: when the walk faults, the binding *)
(* has already been overwritten.                                           *)
assign_element_in_place(variable, indices, value, variables) ==
    LET variable_value == get_variable(variables, variable)
    IN  IF variable_value = None THEN Fault("UndefinedVariable", variables)
        ELSE LET rewritten == rewrite_element(variable_value[2], Reverse(indices), value)
             IN  IF rewritten.fault # "none"
                 THEN Fault(rewritten.fault,
                            set_variable(variables, variable, value).variables)
                 ELSE LET set == set_variable(variables, variable, rewritten.value)
                      IN  IF set.ok THEN Ok(value, set.variables)
                          ELSE Fault("UndefinedVariable", variables)

(* Mutant: bindings copied from one another share their storage: the       *)
(* rewritten value shows in every binding that held the root's value.      *)
assign_element_shared(variable, indices, value, variables) ==
    LET variable_value == get_variable(variables, variable)
    IN  IF variable_value = None THEN Fault("UndefinedVariable", variables)
        ELSE LET rewritten == rewrite_element(variable_value[2], Reverse(indices), value)
                 shared(table) ==
                     [n \in DOMAIN table |->
                         IF table[n] = variable_value[2] THEN rewritten.value
                         ELSE table[n]]
             IN  IF rewritten.fault # "none" THEN Fault(rewritten.fault, variables)
                 ELSE Ok(value,
                         Variables(shared(variables.global_variables),
                                   [k \in 1..Len(variables.environments) |->
                                       shared(variables.environments[k])]))

(* Assignment through a chain rooted at Variable(variable) (289-300).      *)
assign_element(variable, indices, value, variables) ==
    LET variable_value == get_variable(variables, variable)
    IN  IF variable_value = None THEN Fault("UndefinedVariable", variables)
        ELSE LET rewritten == rewrite_element(variable_value[2], Reverse(indices), value)
             IN  IF rewritten.fault # "none" THEN Fault(rewritten.fault, variables)
                 ELSE LET set == set_variable(variables, variable, rewritten.value)
                      IN  IF set.ok THEN Ok(value, set.variables)
                          ELSE Fault("UndefinedVariable", variables)

(* Mutant: arm `_` evaluates the root of the chain, not the base of the    *)
(* outermost access.                                                       *)
assign_tuple_access_root(left_expression, value, variables) ==
    LET chain == tuple_access_chain(left_expression[2], <<left_expression[3]>>)
    IN  IF chain.root[1] = "Variable"
        THEN assign_element(chain.root[2], chain.indices, value, variables)
        ELSE LET base == interpret_expression(chain.root, variables)
             IN  IF ~IsOk(base) THEN base
                 ELSE Ok(value, base.variables)

(* Assignment through a TupleAccess target (279-309).  When the chain is   *)
(* rooted at no Variable, arm `_` (301-305) evaluates `expression`, which  *)
(* there is the base of the outermost TupleAccess, and drops its value.    *)
assign_tuple_access(left_expression, value, variables) ==
    LET chain == tuple_access_chain(left_expression[2], <<left_expression[3]>>)
    IN  IF chain.root[1] = "Variable"
        THEN assign_element(chain.root[2], chain.indices, value, variables)
        ELSE LET base == interpret_expression(left_expression[2], variables)
             IN  IF ~IsOk(base) THEN base
                 ELSE Ok(value, base.variables)

(* Mutant: the root of a tuple-element target is read before the           *)
(* right-hand side is evaluated.                                           *)
interpret_assignment_target_first(left_expression, right_expression, variables) ==
    LET right == interpret_expression(right_expression, variables)
        chain == tuple_access_chain(left_expression[2], <<left_expression[3]>>)
    IN  IF ~IsOk(right) THEN right
        ELSE IF left_expression[1] = "Variable"
             THEN assign_variable(left_expression[2], right.value, right.variables)
        ELSE IF left_expression[1] = "TupleAccess" /\ chain.root[1] = "Variable"
             THEN LET variable_value == get_variable(variables, chain.root[2])
                  IN  IF variable_value = None
                      THEN Fault("UndefinedVariable", right.variables)
                      ELSE LET rewritten == rewrite_element(variable_value[2],
                                                            Reverse(chain.indices),
                                                            right.value)
                               set == set_variable(right.variables, chain.root[2],
                                                   rewritten.value)
                           IN  IF rewritten.fault # "none"
                               THEN Fault(rewritten.fault, right.variables)
                               ELSE IF set.ok THEN Ok(right.value, set.variables)
                               ELSE Fault("UndefinedVariable", right.variables)
        ELSE IF left_expression[1] = "TupleAccess"
             THEN assign_tuple_access(left_expression, right.value, right.variables)
        ELSE Fault("TypeFault", right.variables)

(* Arm Assignment (272-314): the right-hand side first, then the match on  *)
(* the shape of the left-hand side; any other shape is unreachable!().     *)
interpret_assignment(left_expression, right_expression, variables) ==
    LET right == interpret_expression(right_expression, variables)
    IN  IF ~IsOk(right) THEN right
        ELSE IF left_expression[1] = "Variable"
             THEN assign_variable(left_expression[2], right.value, right.variables)
        ELSE IF left_expression[1] = "TupleAccess"
             THEN assign_tuple_access(left_expression, right.value, right.variables)
        ELSE Fault("TypeFault", right.variables)

(* Arm TupleAccess (325-330). *)
interpret_tuple_access(expression, index, variables) ==
    LET base == interpret_expression(expression, variables)
    IN  IF ~IsOk(base) THEN base
        ELSE IF ~IsTuple(base.value) THEN Fault("TypeFault", base.variables)
        ELSE IF index >= Len(base.value[2])
             THEN Fault("IndexOutOfRange", base.variables)
        ELSE Ok(base.value[2][index + 1], base.variables)

(* Arm Variable (316). *)
interpret_variable(variable, variables) ==
    LET value == get_variable(variables, variable)
    IN  IF value = None THEN Fault("UndefinedVariable", variables)
        ELSE Ok(value[2], variables)

interpret_expression(expression, variables) ==
    CASE expression[1] = "Unary" ->
            interpret_unary(expression[2], expression[3], variables)
      [] expression[1] = "Binary" /\ expression[2] \in StrictOperations ->
            interpret_strict(expression[2], expression[3], expression[4], variables)
      [] expression[1] = "Binary" /\ expression[2] = "Or" ->
            interpret_or(expression[3], expression[4], variables)
      [] expression[1] = "Binary" /\ expression[2] = "And" ->
            interpret_and(expression[3], expression[4], variables)
      [] expression[1] = "Binary" /\ expression[2] = "Assignment" ->
            interpret_assignment(expression[3], expression[4], variables)
      [] expression[1] = "Variable" -> interpret_variable(expression[2], variables)
      [] expression[1] = "Literal" -> Ok(expression[2], variables)
      [] expression[1] = "Grouping" -> interpret_expression(expression[2], variables)
      [] expression[1] = "Tuple" -> interpret_elements(expression[2], <<>>, variables)
      [] expression[1] = "TupleAccess" ->
            interpret_tuple_access(expression[2], expression[3], variables)

(***************************************************************************)
(* The text println!("{}", value) writes (tokenizer::Value's Display, as   *)
(* the specification describes it): a decimal numeral, the raw text, true  *)
(* or false, and the parenthesised comma-separated elements of a tuple.    *)
(* A line of output is the sequence of its code points.                    *)
(***************************************************************************)
RECURSIVE Numeral(_)
Numeral(n) == IF n < 10 THEN <<48 + n>> ELSE Numeral(n \div 10) \o <<48 + (n % 10)>>

RECURSIVE Display(_)
RECURSIVE DisplayElements(_)
DisplayElements(values) ==
    IF Len(values) = 0 THEN <<>>
    ELSE IF Len(values) = 1 THEN Display(values[1])
    ELSE Display(values[1]) \o <<44, 32>> \o DisplayElements(Tail(values))

Display(value) ==
    CASE IsNumber(value) ->
            IF value[2] < 0 THEN <<45>> \o Numeral(0 - value[2]) ELSE Numeral(value[2])
      [] IsString(value) -> value[2]
      [] IsBoolean(value) ->
            IF value[2] THEN <<116, 114, 117, 101>> ELSE <<102, 97, 108, 115, 101>>
      [] IsTuple(value) -> <<40>> \o DisplayElements(value[2]) \o <<41>>

(***************************************************************************)
(* State.  global_variables is the caller's table, environments the block  *)
(* tables of the running call; pending is the work interpret and the       *)
(* active interpret_statement calls still have to do, first item next: a   *)
(* statement, or PopEnvironment where a Block will end; output is the      *)
(* standard output, line by line; fault is the panic that ended the        *)
(* process, or "none".  session is the caller: the statement lists it      *)
(* passes to interpret one after the other with the same table, and calls  *)
(* the number of calls made.                                               *)
(***************************************************************************)
VARIABLES global_variables, environments, pending, output, fault, session, calls

vars == <<global_variables, environments, pending, output, fault, session, calls>>

PopEnvironment == <<"pop_environment">>

Current == Variables(global_variables, environments)
program == IF calls = 0 THEN <<>> ELSE session[calls]
Running == fault = "none" /\ Len(pending) > 0
Panicked == fault # "none"
Returned == fault = "none" /\ Len(pending) = 0 /\ calls > 0

(* Mutant: a panic is recovered from: the statement is given up and the    *)
(* run goes on with the next one.                                          *)
Panic_recovers(result) ==
    /\ fault' = "none"
    /\ global_variables' = result.variables.global_variables
    /\ environments' = result.variables.environments
    /\ pending' = Tail(pending)
    /\ UNCHANGED <<output, session, calls>>

(* Mutant: a panic restores the global table of the start of the call. *)
Panic_rolls_back(result) ==
    /\ fault' = result.fault
    /\ global_variables' = EmptyMap
    /\ environments' = result.variables.environments
    /\ UNCHANGED <<pending, output, session, calls>>

(***************************************************************************)
(* interpret_statement (interpreter.rs 69-117), one action per arm.  A     *)
(* panic inside an arm leaves the tables as they were at the panic and     *)
(* ends the process: no action is enabled once fault is set.               *)
(***************************************************************************)
Panic(result) ==
    /\ fault' = result.fault
    /\ global_variables' = result.variables.global_variables
    /\ environments' = result.variables.environments
    /\ UNCHANGED <<pending, output, session, calls>>

Store(variables) ==
    /\ global_variables' = variables.global_variables
    /\ environments' = variables.environments

(* Mutant: an expression statement writes its line twice. *)
StatementExpression_twice ==
    /\ Running
    /\ Head(pending)[1] = "Expression"
    /\ LET result == interpret_expression(Head(pending)[2], Current)
       IN  IF IsOk(result)
           THEN /\ Store(result.variables)
                /\ output' = Append(Append(output, Display(result.value)),
                                    Display(result.value))
                /\ pending' = Tail(pending)
                /\ UNCHANGED <<fault, session, calls>>
           ELSE Panic(result)

(* Mutant: a declaration writes the declared value as a line. *)
StatementVariableDeclaration_prints ==
    /\ Running
    /\ Head(pending)[1] = "VariableDeclaration"
    /\ LET result == interpret_expression(Head(pending)[3], Current)
       IN  IF IsOk(result)
           THEN /\ Store(create_variable(result.variables, Head(pending)[2],
                                         result.value))
                /\ output' = Append(output, Display(result.value))
                /\ pending' = Tail(pending)
                /\ UNCHANGED <<fault, session, calls>>
           ELSE Panic(result)

(* Arm Expression (71-73). *)
StatementExpression ==
    /\ Running
    /\ Head(pending)[1] = "Expression"
    /\ LET result == interpret_expression(Head(pending)[2], Current)
       IN  IF IsOk(result)
           THEN /\ Store(result.variables)
                /\ output' = Append(output, Display(result.value))
                /\ pending' = Tail(pending)
                /\ UNCHANGED <<fault, session, calls>>
           ELSE Panic(result)

(* Arm VariableDeclaration (74-79). *)
StatementVariableDeclaration ==
    /\ Running
    /\ Head(pending)[1] = "VariableDeclaration"
    /\ LET result == interpret_expression(Head(pending)[3], Current)
       IN  IF IsOk(result)
           THEN /\ Store(create_variable(result.variables, Head(pending)[2],
                                         result.value))
                /\ pending' = Tail(pending)
                /\ UNCHANGED <<output, fault, session, calls>>
           ELSE Panic(result)

(* Arm Block (80-86): push, then the statements, then the pop. *)
StatementBlock ==
    /\ Running
    /\ Head(pending)[1] = "Block"
    /\ Store(push_environment(Current))
    /\ pending' = Head(pending)[2] \o <<PopEnvironment>> \o Tail(pending)
    /\ UNCHANGED <<output, fault, session, calls>>

BlockEnd ==
    /\ Running
    /\ Head(pending) = PopEnvironment
    /\ Store(pop_environment(Current))
    /\ pending' = Tail(pending)
    /\ UNCHANGED <<output, fault, session, calls>>

(* Mutant: the branch of an If runs in a table of its own. *)
if_branch_in_block(value, then_statement, else_statement) ==
    IF value THEN <<Block(<<then_statement>>)>>
    ELSE IF Len(else_statement) > 0 THEN <<Block(<<else_statement[1]>>)>>
    ELSE <<>>

(* Mutant: after the then-branch the else-branch runs too. *)
if_branch_falls_through(value, then_statement, else_statement) ==
    IF value THEN <<then_statement>> \o else_statement
    ELSE IF Len(else_statement) > 0 THEN <<else_statement[1]>>
    ELSE <<>>

(* The branch an If runs for a Boolean condition (96-100). *)
if_branch(value, then_statement, else_statement) ==
    IF value THEN <<then_statement>>
    ELSE IF Len(else_statement) > 0 THEN <<else_statement[1]>>
    ELSE <<>>

(* Arm If (87-101). *)
StatementIf ==
    /\ Running
    /\ Head(pending)[1] = "If"
    /\ LET result == interpret_expression(Head(pending)[2], Current)
       IN  IF ~IsOk(result) THEN Panic(result)
           ELSE IF ~IsBoolean(result.value)
                THEN Panic(Fault("TypeFault", result.variables))
           ELSE /\ Store(result.variables)
                /\ pending' = if_branch(result.value[2], Head(pending)[3],
                                        Head(pending)[4]) \o Tail(pending)
                /\ UNCHANGED <<output, fault, session, calls>>

(* Mutant: the body runs once more after the condition yielded false. *)
while_step_again(run_loop, statement, loop) ==
    IF run_loop THEN <<statement, loop>> ELSE <<statement>>

(* Mutant: the loop is not entered again after the body. *)
while_step_once(run_loop, statement, loop) ==
    IF run_loop THEN <<statement>> ELSE <<>>

(* What a While does after its condition yielded run_loop (110-114): the   *)
(* body and then the loop again, or the break.                             *)
while_step(run_loop, statement, loop) ==
    IF run_loop THEN <<statement, loop>> ELSE <<>>

(* Arm While (102-115). *)
StatementWhile ==
    /\ Running
    /\ Head(pending)[1] = "While"
    /\ LET result == interpret_expression(Head(pending)[2], Current)
       IN  IF ~IsOk(result) THEN Panic(result)
           ELSE IF ~IsBoolean(result.value)
                THEN Panic(Fault("TypeFault", result.variables))
           ELSE /\ Store(result.variables)
                /\ pending' = while_step(result.value[2], Head(pending)[3],
                                         Head(pending)) \o Tail(pending)
                /\ UNCHANGED <<output, fault, session, calls>>

(* Mutant: every call starts from an empty global table. *)
interpret_fresh_table ==
    /\ fault = "none"
    /\ Len(pending) = 0
    /\ calls < Len(session)
    /\ calls' = calls + 1
    /\ pending' = session[calls + 1]
    /\ environments' = <<>>
    /\ global_variables' = EmptyMap
    /\ UNCHANGED <<output, fault, session>>

(* interpret (59-67): a new Variables over the caller's table with no      *)
(* block table, and the statements in order.                               *)
interpret ==
    /\ fault = "none"
    /\ Len(pending) = 0
    /\ calls < Len(session)
    /\ calls' = calls + 1
    /\ pending' = session[calls + 1]
    /\ environments' = <<>>
    /\ UNCHANGED <<global_variables, output, fault, session>>

(***************************************************************************)
(* The statement lists given to interpret.  Bounds of the model.           *)
(***************************************************************************)
MaxBlockLen == 2
MaxPath == 2
MaxIndex == 2
MaxN == 3

SeqsUpTo(S, k) == UNION {[1..m -> S] : m \in 0..k}

Num(n) == Literal(Number(n))
Assign(target, expression) == Binary("Assignment", target, expression)
Read(variable) == Expression(Variable(variable))
Declare(variable, n) == VariableDeclaration(variable, Num(n))
Set(variable, n) == Expression(Assign(Variable(variable), Num(n)))
Increment(variable, n) ==
    Assign(Variable(variable), Binary("Add", Variable(variable), Num(n)))

(* Blocks, two deep, over declarations, assignments and reads of x and y,  *)
(* an If that declares and a While that counts, with names declared at     *)
(* the top level, in the outer block, in the inner block or nowhere.       *)
ScopeNames == {"x", "y"}
IfDeclare == If(Literal(Boolean(TRUE)), Declare("x", 7), <<>>)
CountUp == While(Binary("Less", Variable("x"), Num(2)), Expression(Increment("x", 1)))
SimpleStatements ==
    {Declare(n, 1) : n \in ScopeNames} \cup {Set(n, 2) : n \in ScopeNames}
        \cup {Read(n) : n \in ScopeNames} \cup {IfDeclare, CountUp}
InnerBodies == SeqsUpTo(SimpleStatements, MaxBlockLen)
ScopePrograms ==
    {top \o <<Block(outer \o <<Block(inner)>> \o after)>> \o <<Read(last)>> :
        top \in {<<>>, <<Declare("x", 5)>>},
        outer \in {<<>>, <<Declare("x", 3)>>, <<Declare("y", 3)>>},
        inner \in InnerBodies,
        after \in {<<>>, <<Read("x")>>, <<Set("x", 4)>>},
        last \in ScopeNames}

(* Tuple-element assignments through every index path, at the top level,  *)
(* in a block, and in a block that shadows the tuple.                      *)
NestedRight == Tuple(<<Number(1), Tuple(<<Number(2), Number(3)>>)>>)
NestedLeft == Tuple(<<Tuple(<<Number(1), Number(2)>>), Number(3)>>)
TupleValues == {NestedRight, NestedLeft}
Paths == UNION {[1..m -> 0..MaxIndex] : m \in 1..MaxPath}

(* The chain of TupleAccess nodes for an index path, root-most first. *)
RECURSIVE Access(_, _)
Access(root, path) ==
    IF Len(path) = 0 THEN root
    ELSE Access(TupleAccess(root, Head(path)), Tail(path))

SetElement(path) == Expression(Assign(Access(Variable("t"), path), Num(99)))
TuplePrograms ==
    UNION {{<<VariableDeclaration("t", Literal(value)), SetElement(path), Read("t")>>,
            <<VariableDeclaration("t", Literal(value)),
              Block(<<SetElement(path), Read("t")>>), Read("t")>>,
            <<Declare("t", 0),
              Block(<<VariableDeclaration("t", Literal(value)), SetElement(path),
                      Read("t")>>), Read("t")>>} :
           value \in TupleValues, path \in Paths}

(* Assignments to targets the parser does not produce. *)
OtherTargets ==
    {Literal(Number(1)), Literal(NestedRight), Grouping(Variable("x")),
     Grouping(Variable("t")), Unary("Minus", Variable("x")),
     TupleExpression(<<Variable("x")>>), Binary("Add", Variable("x"), Num(1))}
UnrootedBases ==
    {Literal(NestedRight), Literal(Number(1)), Grouping(Variable("t")),
     Grouping(Variable("u")), TupleExpression(<<Increment("x", 1), Num(2)>>),
     Binary("Add", Variable("x"), Literal(Boolean(TRUE)))}
UnrootedTargets ==
    {Access(base, path) : base \in UnrootedBases, path \in Paths}
TargetPrograms ==
    {<<Declare("x", 0), VariableDeclaration("t", Literal(NestedRight)),
       Expression(Assign(target, right)), Read("x"), Read("t")>> :
        target \in OtherTargets \cup UnrootedTargets,
        right \in {Num(7), Increment("x", 10)}}

(* Or and And over left operands of every type and right operands with    *)
(* and without an effect.                                                  *)
SampleValues ==
    {Number(0), Number(1), String(<<120>>), String(<<>>), Boolean(TRUE),
     Boolean(FALSE), NestedRight, Tuple(<<>>)}
LeftOperands ==
    {Literal(v) : v \in SampleValues}
        \cup {Variable("x"), Variable("u"), Binary("Equal", Variable("x"), Num(0)),
              Unary("Not", Literal(Boolean(TRUE))), Increment("x", 1)}
RightOperands == {Literal(String(<<120>>)), Literal(Boolean(TRUE)), Set("x", 9)[2]}
LogicPrograms ==
    {<<Declare("x", 0), VariableDeclaration("r", Binary(operation, left, right)),
       Read("x")>> :
        operation \in {"Or", "And"}, left \in LeftOperands, right \in RightOperands}

(* Counting loops, a loop whose condition counts, and a loop that never    *)
(* ends.                                                                   *)
CountTo(n, body) == While(Binary("Less", Variable("i"), Num(n)), body)
CountingBodies(n) ==
    {Expression(Increment("i", 1)),
     Block(<<Expression(Increment("i", 1))>>),
     If(Binary("Less", Variable("i"), Num(n)), Expression(Increment("i", 1)), <<>>)}
CountingPrograms ==
    UNION {{<<Declare("i", 0), CountTo(n, body), Read("i")>> : body \in CountingBodies(n)} :
           n \in 0..MaxN}
ConditionCounts(n) ==
    <<Declare("i", 0),
      While(Binary("Less", Increment("i", 1), Num(n)), Read("i")), Read("i")>>
Forever == <<While(Literal(Boolean(TRUE)), Block(<<>>))>>
WhilePrograms ==
    CountingPrograms \cup {ConditionCounts(n) : n \in 0..MaxN} \cup {Forever}
        \cup {<<Declare("i", 0), While(Variable("i"), Read("i"))>>}

(* Ifs over conditions of every type and branches with an effect. *)
Conditions ==
    {Literal(v) : v \in SampleValues}
        \cup {Variable("u"), Binary("Equal", Variable("x"), Num(0)),
              Binary("Less", Variable("x"), Num(0))}
ThenStatements == {Set("x", 1), Declare("y", 1), Block(<<Set("x", 1)>>)}
ElseStatements == {<<>>, <<Set("x", 2)>>, <<Declare("z", 2)>>}
IfPrograms ==
    {<<Declare("x", 0), If(condition, then_statement, else_statement), Read("x")>> :
        condition \in Conditions, then_statement \in ThenStatements,
        else_statement \in ElseStatements}

(* An If or a While whose branch or body is a declaration of j, at the top *)
(* level and inside blocks MaxDepth deep, each followed by a read of j.    *)
MaxDepth == 2
BranchStatements ==
    {If(Literal(Boolean(TRUE)), Declare("j", 1), <<Declare("j", 2)>>),
     If(Literal(Boolean(FALSE)), Declare("j", 1), <<Declare("j", 2)>>),
     If(Literal(Boolean(FALSE)), Declare("j", 1), <<>>),
     If(Literal(Boolean(TRUE)), Block(<<Declare("j", 1)>>), <<>>),
     While(Binary("Less", Variable("j"), Num(6)), Declare("j", 6))}
RECURSIVE Nested(_, _)
Nested(depth, statements) ==
    IF depth = 0 THEN statements
    ELSE <<Block(Nested(depth - 1, statements)), Read("j")>>
BranchProgram(depth, statement) ==
    <<Declare("j", 0)>> \o Nested(depth, <<statement, Read("j")>>)
BranchPrograms ==
    {BranchProgram(depth, statement) :
        depth \in 0..MaxDepth, statement \in BranchStatements}

(* b is declared or assigned from a, which holds a tuple, at the top level *)
(* or in a block; then an element is assigned through a or through b, and  *)
(* both are read.                                                          *)
SetElementOf(variable, path) ==
    Expression(Assign(Access(Variable(variable), path), Num(99)))
AliasPrograms ==
    UNION {{<<VariableDeclaration("a", Literal(value)),
              VariableDeclaration("b", Variable("a")),
              SetElementOf(through, path), Read("a"), Read("b")>>,
            <<VariableDeclaration("a", Literal(value)), Declare("b", 0),
              Expression(Assign(Variable("b"), Variable("a"))),
              SetElementOf(through, path), Read("a"), Read("b")>>,
            <<VariableDeclaration("a", Literal(value)),
              Block(<<VariableDeclaration("b", Variable("a")),
                      SetElementOf(through, path), Read("a"), Read("b")>>)>>} :
           value \in TupleValues, path \in Paths, through \in {"a", "b"}}

(* Assignments whose right-hand side is an assignment: a = (b = v), and an *)
(* element assignment to t whose right-hand side assigns an element of t   *)
(* or t itself.                                                            *)
NestedAssignPrograms ==
    {<<Declare("a", 0), Declare("b", 1),
       Expression(Assign(Variable("a"), inner)), Read("a"), Read("b")>> :
        inner \in {Assign(Variable("b"), Num(7)),
                    Grouping(Assign(Variable("b"), Num(7))),
                    Assign(Variable("b"), Literal(NestedRight)),
                    Assign(Variable("b"), Binary("Add", Variable("a"), Variable("b")))}}
ElementRightSides ==
    {Assign(Access(Variable("t"), <<index>>), Num(9)) : index \in 0..MaxIndex}
        \cup {Assign(Access(Variable("t"), <<1, 0>>), Num(9)),
               Assign(Variable("t"), Literal(NestedLeft))}
ElementOrderPrograms ==
    {<<VariableDeclaration("t", Literal(NestedRight)),
       Expression(Assign(Access(Variable("t"), path), right)), Read("t")>> :
        path \in Paths, right \in ElementRightSides}

(* Every comparison over every pair of the sample values. *)
Comparisons == {"Equal", "NotEqual", "Less", "LessEqual", "Greater", "GreaterEqual"}
ComparePrograms ==
    {<<VariableDeclaration("r", Binary(operation, Literal(left), Literal(right)))>> :
        operation \in Comparisons, left \in SampleValues, right \in SampleValues}

(* A statement that faults, of each kind of fault and in each kind of      *)
(* statement, after evaluating first, a literal or the assignment x = 5;   *)
(* at the top level or in a block, between statements that write and print.*)
FirstExpressions == {Num(1), Assign(Variable("x"), Num(5))}
UndefinedFaults(first) ==
    {Expression(Binary("Add", first, Variable("u"))),
     Expression(Assign(Variable("u"), first)),
     VariableDeclaration("y", Binary("Add", first, Variable("u")))}
TypeFaults(first) ==
    {Expression(Binary("Add", first, Literal(Boolean(TRUE)))),
     Expression(Binary("Less", first, Literal(String(<<120>>)))),
     Expression(Unary("Not", first)),
     Expression(Assign(Literal(Number(1)), first)),
     If(first, Set("x", 3), <<Set("x", 3)>>),
     While(first, Set("x", 3))}
IndexFaults(first) ==
    {Expression(TupleAccess(TupleExpression(<<first>>), 1)),
     VariableDeclaration("y", TupleAccess(TupleExpression(<<first, first>>), 2))}
FaultStatements(first) ==
    UndefinedFaults(first) \cup TypeFaults(first) \cup IndexFaults(first)
FaultProgramsWith(first) ==
    UNION {{<<Declare("x", 0), Set("x", 1), statement, Set("x", 2), Read("x")>>,
            <<Declare("x", 0), Set("x", 1), Block(<<Declare("z", 1), statement>>),
              Set("x", 2), Read("x")>>} :
           statement \in FaultStatements(first)}
FaultPrograms == UNION {FaultProgramsWith(first) : first \in FirstExpressions}

(* Expression statements in a loop body, in the branches of an If and in a *)
(* block, and a declaration whose value is an assignment.                  *)
OutputPrograms ==
    {<<Declare("i", 0), CountTo(n, body),
       If(Literal(Boolean(condition)), Expression(Num(7)), else_statement),
       VariableDeclaration("y", Assign(Variable("i"), Num(50))),
       Block(<<Expression(Literal(value))>>)>> :
        n \in 0..MaxN,
        body \in {Expression(Increment("i", 1)), Block(<<Expression(Increment("i", 1))>>)},
        condition \in BOOLEAN,
        else_statement \in {<<>>, <<Expression(Num(8))>>},
        value \in {String(<<120>>), Boolean(TRUE), NestedRight}}

(* Tuples of up to MaxArity elements that read x, add 1 to x, double x,    *)
(* are a literal, or read the undefined u.                                 *)
MaxArity == 3
Double(variable) ==
    Assign(Variable(variable), Binary("Multiply", Variable(variable), Num(2)))
ElementExpressions ==
    {Variable("x"), Increment("x", 1), Double("x"), Num(7), Variable("u")}
TupleOrderPrograms ==
    {<<Declare("x", 0), VariableDeclaration("t", TupleExpression(expressions)),
       Read("x")>> :
        expressions \in SeqsUpTo(ElementExpressions, MaxArity)}

(* Every nesting, MaxDepth deep, of a Block, an If that takes its          *)
(* then-branch, an If that takes its else-branch and a While whose body    *)
(* runs at least once (its condition counts its evaluations in c, up to    *)
(* MaxDepth + 1), around a declaration of v or an expression statement; a  *)
(* top-level declaration follows.                                          *)
CountsEvaluations == Binary("Less", Increment("c", 1), Num(MaxDepth + 1))
RECURSIVE Nestings(_)
Nestings(depth) ==
    IF depth = 0 THEN {Declare("v", 1), Expression(Num(1))}
    ELSE Nestings(depth - 1)
            \cup {Block(<<statement>>) : statement \in Nestings(depth - 1)}
            \cup {If(Literal(Boolean(TRUE)), statement, <<>>) :
                      statement \in Nestings(depth - 1)}
            \cup {If(Literal(Boolean(FALSE)), Expression(Num(0)), <<statement>>) :
                      statement \in Nestings(depth - 1)}
            \cup {While(CountsEvaluations, statement) :
                      statement \in Nestings(depth - 1)}
NestingPrograms ==
    {<<Declare("c", 0), statement, Declare("w", 2)>> : statement \in Nestings(MaxDepth)}

Programs ==
    ScopePrograms \cup TuplePrograms \cup TargetPrograms \cup LogicPrograms
        \cup WhilePrograms \cup IfPrograms \cup BranchPrograms \cup AliasPrograms
        \cup NestedAssignPrograms \cup ElementOrderPrograms \cup ComparePrograms
        \cup FaultPrograms \cup OutputPrograms \cup TupleOrderPrograms
        \cup NestingPrograms

(* A caller that keeps its table over two calls. *)
Repeated ==
    {<<first, second>> :
        first \in {<<Declare("x", 5)>>, <<Block(<<Declare("x", 1)>>)>>,
                   <<Declare("x", 5), Set("x", 2)>>},
        second \in {<<Read("x")>>, <<Set("x", 9), Read("x")>>,
                    <<Declare("x", 6), Read("x")>>}}

Sessions == {<<statements>> : statements \in Programs} \cup Repeated

Init ==
    /\ session \in Sessions
    /\ global_variables = EmptyMap
    /\ environments = <<>>
    /\ pending = <<>>
    /\ output = <<>>
    /\ fault = "none"
    /\ calls = 0

Next ==
    \/ interpret
    \/ StatementExpression
    \/ StatementVariableDeclaration
    \/ StatementBlock
    \/ BlockEnd
    \/ StatementIf
    \/ StatementWhile

Spec == Init /\ [][Next]_vars

(* The runs of the loop programs alone.  The process is one thread that    *)
(* runs until it returns or panics: a step that can be taken is taken.     *)
LoopInit == Init /\ session \in {<<statements>> : statements \in WhilePrograms}
LoopSpec == LoopInit /\ [][Next]_vars /\ WF_vars(Next)

(***************************************************************************)
(* Reading a run of one of the scope programs                              *)
(*   top ; { outer ; { inner } after } ; read last                         *)
(* from the state: its parts, and where the run stands.                    *)
(***************************************************************************)
ScopeRun == calls = 1 /\ Len(session) = 1 /\ session[1] \in ScopePrograms
ScopeTop == SubSeq(session[1], 1, Len(session[1]) - 2)
ScopeOuterBody == session[1][Len(session[1]) - 1][2]
ScopeInnerAt == CHOOSE k \in 1..Len(ScopeOuterBody) : ScopeOuterBody[k][1] = "Block"
ScopeOuter == SubSeq(ScopeOuterBody, 1, ScopeInnerAt - 1)
ScopeInner == ScopeOuterBody[ScopeInnerAt][2]
ScopeAfter == SubSeq(ScopeOuterBody, ScopeInnerAt + 1, Len(ScopeOuterBody))
ScopeLast == session[1][Len(session[1])]

(* The inner block has ended and the outer block goes on. *)
AfterInner == pending = ScopeAfter \o <<PopEnvironment, ScopeLast>>
(* The outer block has ended and the top level goes on. *)
AfterOuter == pending = <<ScopeLast>>

(* A statement of the list declares n in the scope the list runs in: a     *)
(* VariableDeclaration, or one that is the branch of an If or the body of  *)
(* a While.  Declarations inside a Block of the list do not count.         *)
RECURSIVE DeclaresHere(_, _)
DeclaresHere(statement, n) ==
    CASE statement[1] = "VariableDeclaration" -> statement[2] = n
      [] statement[1] = "If" ->
            \/ DeclaresHere(statement[3], n)
            \/ (Len(statement[4]) > 0 /\ DeclaresHere(statement[4][1], n))
      [] statement[1] = "While" -> DeclaresHere(statement[3], n)
      [] OTHER -> FALSE
DeclaredIn(statements, n) ==
    \E k \in 1..Len(statements) : DeclaresHere(statements[k], n)

(***************************************************************************)
(* C1.  After a Block has finished, no binding declared inside it is       *)
(* observable: a name declared only inside the block (by whatever          *)
(* statements) has no binding in the enclosing scope, and the read of it   *)
(* that follows the block ends in an undefined-variable fault instead of   *)
(* completing.  Checked for the inner block (enclosing scope: the outer    *)
(* block) and for the outer block (enclosing scope: the top level).        *)
(***************************************************************************)
C1_BlockBindingsDiscarded ==
    ScopeRun =>
        /\ AfterInner =>
              \A n \in ScopeNames :
                  ~DeclaredIn(ScopeTop, n) /\ ~DeclaredIn(ScopeOuter, n)
                      => get_variable(Current, n) = None
        /\ AfterOuter =>
              /\ \A n \in ScopeNames :
                    ~DeclaredIn(ScopeTop, n) => get_variable(Current, n) = None
              /\ ~DeclaredIn(ScopeTop, ScopeLast[2][2]) /\ Panicked
                    => fault = "UndefinedVariable"
        /\ pending = <<PopEnvironment, ScopeLast>> /\ Len(ScopeAfter) > 0
              => DeclaredIn(ScopeTop, "x") \/ DeclaredIn(ScopeOuter, "x")
        /\ Returned => DeclaredIn(ScopeTop, ScopeLast[2][2])

(* y is declared in the outer block, x twice in the inner one; both blocks *)
(* have ended and the read of y at the top level has faulted.              *)
C1_Witness ==
    /\ session = <<<<Block(<<Declare("y", 3), Block(<<Declare("x", 1), IfDeclare>>)>>),
                     Read("y")>>>>
    /\ pending = <<Read("y")>>
    /\ environments = <<>>
    /\ fault = "UndefinedVariable"

(***************************************************************************)
(* C2.  Declaring x inside a nested Block while an enclosing scope holds x *)
(* creates a binding in the block's own table: inside the block, from the  *)
(* declaration on, reads and writes of x use that binding and leave every  *)
(* enclosing binding of x as it was when the block was entered, and after  *)
(* the block those enclosing bindings are what a read of x finds.          *)
(* The top level declares x = 5, the outer block x = 3.                    *)
(***************************************************************************)
ScopeInnerStart ==
    ScopeInner \o <<PopEnvironment>> \o ScopeAfter \o <<PopEnvironment, ScopeLast>>
(* Inside the inner block, its first statement done (an If that declares  *)
(* takes a step to its branch first).                                      *)
InsideInner ==
    /\ Len(environments) = 2
    /\ pending # ScopeInnerStart
    /\ ScopeInner[1][1] = "If" => pending # <<ScopeInner[1][3]>> \o Tail(ScopeInnerStart)
InnerDone == pending = <<PopEnvironment>> \o ScopeAfter \o <<PopEnvironment, ScopeLast>>
ShadowInner ==
    /\ Len(ScopeInner) > 0
    /\ DeclaresHere(ScopeInner[1], "x")
    /\ DeclaredIn(ScopeTop, "x") \/ DeclaredIn(ScopeOuter, "x")
ShadowOuter == DeclaredIn(ScopeTop, "x") /\ DeclaredIn(ScopeOuter, "x")
TopLevelAsDeclared ==
    get(global_variables, "x") = IF DeclaredIn(ScopeTop, "x") THEN Some(Number(5)) ELSE None
OuterAsDeclared ==
    get(environments[1], "x") = IF DeclaredIn(ScopeOuter, "x") THEN Some(Number(3)) ELSE None

C2_ShadowingLeavesEnclosing ==
    ScopeRun =>
        /\ ShadowInner /\ InsideInner =>
              /\ contains_key(environments[2], "x")
              /\ get_variable(Current, "x") = Some(environments[2]["x"])
              /\ TopLevelAsDeclared /\ OuterAsDeclared
        /\ ShadowInner /\ InnerDone /\ Len(ScopeInner) = 2 =>
              /\ ScopeInner[2] = Set("x", 2) => environments[2]["x"] = Number(2)
              /\ ScopeInner[2] = Read("x") =>
                    /\ Len(output) > 0
                    /\ output[Len(output)] = Display(environments[2]["x"])
                    /\ environments[2]["x"] \in {Number(1), Number(7)}
        /\ ShadowInner /\ AfterInner =>
              /\ TopLevelAsDeclared /\ OuterAsDeclared
              /\ get_variable(Current, "x") =
                    IF DeclaredIn(ScopeOuter, "x") THEN Some(Number(3)) ELSE Some(Number(5))
        /\ ShadowOuter /\ AfterOuter => global_variables["x"] = Number(5)
        /\ ShadowOuter /\ Returned /\ ScopeLast = Read("x") =>
              output[Len(output)] = Display(Number(5))

(* x is 5 at the top level and 3 in the outer block; the inner block has   *)
(* declared its own x, assigned 2 to it and ended.                         *)
C2_Witness ==
    /\ session = <<<<Declare("x", 5),
                     Block(<<Declare("x", 3), Block(<<Declare("x", 1), Set("x", 2)>>),
                             Read("x")>>),
                     Read("x")>>>>
    /\ pending = <<Read("x"), PopEnvironment, Read("x")>>
    /\ output = <<Display(Number(2))>>
    /\ get_variable(Current, "x") = Some(Number(3))

(***************************************************************************)
(* C3.  Assignment never creates a binding.  Whenever the statement to run *)
(* is an assignment to a variable that no table holds, at any depth of     *)
(* blocks, the step ends in a fault and no table holds the name after it;  *)
(* when the right-hand side is a literal the fault is the undefined        *)
(* variable and every table is as it was.                                  *)
(***************************************************************************)
HeldNowhere(n) ==
    /\ n \notin DOMAIN global_variables
    /\ \A k \in 1..Len(environments) : n \notin DOMAIN environments[k]
AssignsVariable(statement) ==
    /\ statement[1] = "Expression"
    /\ statement[2][1] = "Binary"
    /\ statement[2][2] = "Assignment"
    /\ statement[2][3][1] = "Variable"
AssignedName == Head(pending)[2][3][2]

C3_AssignmentNeverCreates ==
    [][(Running /\ AssignsVariable(Head(pending)) /\ HeldNowhere(AssignedName))
          => /\ fault' # "none"
             /\ HeldNowhere(AssignedName)'
             /\ Head(pending)[2][4][1] = "Literal"
                  => /\ fault' = "UndefinedVariable"
                     /\ global_variables' = global_variables
                     /\ environments' = environments]_vars

(* The assignment x = 4 in the outer block, after an inner block that      *)
(* declared x, has faulted, and neither table holds x.                     *)
C3_Witness ==
    /\ ScopeRun
    /\ Len(pending) > 0
    /\ Head(pending) = Set("x", 4)
    /\ fault = "UndefinedVariable"
    /\ Len(environments) = 1
    /\ HeldNowhere("x")
    /\ DeclaredIn(ScopeInner, "x")

(***************************************************************************)
(* C4.  A read of n yields the value in the first table that holds n,      *)
(* searching the block tables from the innermost outwards and the global   *)
(* table last; an assignment to n overwrites n in that table and changes   *)
(* nothing else: no other table's binding of n, no other name, no table's  *)
(* set of names.  Table 0 stands for the global table.                     *)
(***************************************************************************)
Holds(k, n) ==
    IF k = 0 THEN n \in DOMAIN global_variables ELSE n \in DOMAIN environments[k]
FirstHolder(n) ==
    CHOOSE k \in 0..Len(environments) :
        Holds(k, n) /\ \A j \in (k + 1)..Len(environments) : ~Holds(j, n)
TableOf(globals, envs, k) == IF k = 0 THEN globals ELSE envs[k]
ReadsVariable(statement) ==
    statement[1] = "Expression" /\ statement[2][1] = "Variable"

C4_FirstMatchReadAndWrite ==
    [][/\ (Running /\ ReadsVariable(Head(pending)) /\ ~HeldNowhere(Head(pending)[2][2]))
            => LET n == Head(pending)[2][2]
               IN  /\ output' = Append(output,
                          Display(TableOf(global_variables, environments, FirstHolder(n))[n]))
                   /\ fault' = "none"
                   /\ global_variables' = global_variables
                   /\ environments' = environments
       /\ (Running /\ AssignsVariable(Head(pending)) /\ ~HeldNowhere(AssignedName)
                   /\ Head(pending)[2][4][1] = "Literal")
            => LET n == AssignedName
                   value == Head(pending)[2][4][2]
               IN  /\ fault' = "none"
                   /\ output' = Append(output, Display(value))
                   /\ Len(environments') = Len(environments)
                   /\ \A k \in 0..Len(environments) :
                        LET before == TableOf(global_variables, environments, k)
                            after == TableOf(global_variables', environments', k)
                        IN  /\ DOMAIN after = DOMAIN before
                            /\ \A m \in DOMAIN before :
                                 after[m] = IF k = FirstHolder(n) /\ m = n
                                            THEN value ELSE before[m]]_vars

(* x is 5 at the top level and 3 in the outer block, y is undeclared; the  *)
(* inner block, which holds no x, has assigned 2 to x and read it back:    *)
(* the outer block's x is 2, the global x still 5.                         *)
C4_Witness ==
    /\ ScopeRun
    /\ global_variables = insert(EmptyMap, "x", Number(5))
    /\ environments = <<insert(EmptyMap, "x", Number(2)), EmptyMap>>
    /\ output = <<Display(Number(2)), Display(Number(2))>>

(***************************************************************************)
(* C5.  A VariableDeclaration inserts its binding into the innermost block *)
(* table when there is one and into the global table otherwise: that table *)
(* gains or overwrites the name and every other table is unchanged, also   *)
(* when an enclosing table or the global table holds the name.  Stated for *)
(* declarations with a literal initializer; table 0 is the global table.   *)
(***************************************************************************)
DeclaresLiteral(statement) ==
    statement[1] = "VariableDeclaration" /\ statement[3][1] = "Literal"

C5_DeclarationInnermostOnly ==
    [][(Running /\ DeclaresLiteral(Head(pending)))
          => LET n == Head(pending)[2]
                 value == Head(pending)[3][2]
                 target == Len(environments)
             IN  /\ fault' = "none"
                 /\ output' = output
                 /\ Len(environments') = Len(environments)
                 /\ \A k \in 0..Len(environments) :
                      LET before == TableOf(global_variables, environments, k)
                          after == TableOf(global_variables', environments', k)
                      IN  IF k = target
                          THEN /\ DOMAIN after = DOMAIN before \cup {n}
                               /\ after[n] = value
                               /\ \A m \in DOMAIN before \ {n} : after[m] = before[m]
                          ELSE after = before]_vars

(* x is 5 at the top level and 3 in the outer block; the inner block has   *)
(* declared x = 1 and declared it again as 7 in the same table.            *)
C5_Witness ==
    /\ ScopeRun
    /\ global_variables = insert(EmptyMap, "x", Number(5))
    /\ environments = <<insert(EmptyMap, "x", Number(3)), insert(EmptyMap, "x", Number(7))>>
    /\ ScopeInner = <<Declare("x", 1), IfDeclare>>

(***************************************************************************)
(* C6.  An assignment through a chain of tuple indices rooted at a         *)
(* variable, whose index path (root-most index first) exists in the        *)
(* variable's value, replaces exactly the element at that path and stores  *)
(* the result in the binding the value was read from: the element at the   *)
(* path is the new value, every tuple along the path keeps its arity,      *)
(* every element off the path is as before, and no other binding changes.  *)
(* With t = (1, (2, 3)), assigning 99 at path 1, 1 gives (1, (2, 99)),     *)
(* which the read of t that follows prints.                                *)
(***************************************************************************)
RECURSIVE ValidPath(_, _)
ValidPath(value, path) ==
    \/ Len(path) = 0
    \/ /\ value[1] = "Tuple"
       /\ Head(path) < Len(value[2])
       /\ ValidPath(value[2][Head(path) + 1], Tail(path))
RECURSIVE ElementAt(_, _)
ElementAt(value, path) ==
    IF Len(path) = 0 THEN value ELSE ElementAt(value[2][Head(path) + 1], Tail(path))
IsPrefix(p, q) == Len(p) <= Len(q) /\ SubSeq(q, 1, Len(p)) = p
Positions == {<<>>} \cup Paths

ElementReplaced(before, after, path, value) ==
    /\ ValidPath(after, path)
    /\ ElementAt(after, path) = value
    /\ \A q \in Positions :
          /\ (IsPrefix(q, path) /\ q # path) =>
                /\ ElementAt(after, q)[1] = "Tuple"
                /\ Len(ElementAt(after, q)[2]) = Len(ElementAt(before, q)[2])
          /\ (ValidPath(before, q) /\ ~IsPrefix(q, path) /\ ~IsPrefix(path, q)) =>
                /\ ValidPath(after, q)
                /\ ElementAt(after, q) = ElementAt(before, q)

C6_TupleElementAssignment ==
    [][/\ \A path \in Paths :
            (/\ Running
             /\ Head(pending) = SetElement(path)
             /\ ~HeldNowhere("t")
             /\ ValidPath(TableOf(global_variables, environments, FirstHolder("t"))["t"],
                          path))
            => /\ fault' = "none"
               /\ output' = Append(output, Display(Number(99)))
               /\ Len(environments') = Len(environments)
               /\ \A k \in 0..Len(environments) :
                    LET before == TableOf(global_variables, environments, k)
                        after == TableOf(global_variables', environments', k)
                    IN  /\ DOMAIN after = DOMAIN before
                        /\ \A m \in DOMAIN before :
                             IF k = FirstHolder("t") /\ m = "t"
                             THEN ElementReplaced(before[m], after[m], path, Number(99))
                             ELSE after[m] = before[m]
       /\ (/\ Running
           /\ Head(pending) = SetElement(<<1, 1>>)
           /\ get_variable(Current, "t") = Some(NestedRight))
            => get_variable(Current, "t")' =
                  Some(Tuple(<<Number(1), Tuple(<<Number(2), Number(99)>>)>>))
       /\ (/\ Running
           /\ session[1] = <<VariableDeclaration("t", Literal(NestedRight)),
                             SetElement(<<1, 1>>), Read("t")>>
           /\ pending = <<Read("t")>>)
            => output' = <<Display(Number(99)),
                           Display(Tuple(<<Number(1), Tuple(<<Number(2), Number(99)>>)>>))>>
      ]_vars

(* In a block whose own t is (1, (2, 3)) while the global t is 0, the      *)
(* element at path 1, 0 has been assigned: the block's t is (1, (99, 3)).  *)
C6_Witness ==
    /\ Len(environments) = 1
    /\ global_variables = insert(EmptyMap, "t", Number(0))
    /\ environments[1] =
          insert(EmptyMap, "t", Tuple(<<Number(1), Tuple(<<Number(99), Number(3)>>)>>))
    /\ output = <<Display(Number(99))>>

(***************************************************************************)
(* Reading a run of one of the target programs                             *)
(*   var x = 0; var t = (1, (2, 3)); target = right; read x; read t        *)
(* from the state.                                                         *)
(***************************************************************************)
TargetRun == calls = 1 /\ Len(session) = 1 /\ session[1] \in TargetPrograms
TargetStatement == session[1][3]
Target == TargetStatement[2][3]
TargetRight == TargetStatement[2][4]
(* The assignment is the statement being run (and has panicked, if the     *)
(* process has), or it has completed.                                      *)
AtTarget == pending = SubSeq(session[1], 3, 5)
PastTarget == pending = SubSeq(session[1], 4, 5)
(* What the right-hand side adds to x, and its value. *)
RightAdds == IF TargetRight = Num(7) THEN 0 ELSE 10
RightValue == IF TargetRight = Num(7) THEN Number(7) ELSE Number(10)
TablesWithX(n) ==
    /\ environments = <<>>
    /\ DOMAIN global_variables = {"x", "t"}
    /\ global_variables["t"] = NestedRight
    /\ global_variables["x"] = Number(n)
Front(s) == SubSeq(s, 1, Len(s) - 1)

(***************************************************************************)
(* C7 as claimed.  An assignment whose left-hand side is neither a         *)
(* Variable nor a chain rooted at a Variable does not fault (unless the    *)
(* evaluation of the target's sub-expression itself does), and completes   *)
(* with the right-hand value as its result.                                *)
(***************************************************************************)
C7_AsClaimed ==
    (TargetRun /\ AtTarget /\ Panicked /\ Target[1] \in {"Literal", "Grouping", "TupleAccess"}) =>
        ~IsOk(interpret_expression(IF Target[1] = "TupleAccess" THEN Target[2] ELSE Target,
                                   Current))

(***************************************************************************)
(* C7, amended.  After the right-hand side has been evaluated:             *)
(* a left-hand side that is no Variable and no TupleAccess (a literal, a   *)
(* grouping, a unary or binary operation, a tuple) is a fault, with no     *)
(* binding changed; a chain of TupleAccess rooted at no Variable evaluates *)
(* the base of its outermost access exactly once: a fault of that          *)
(* evaluation is the assignment's fault, and otherwise the assignment      *)
(* completes with the right-hand value as its result, whether or not the   *)
(* base is a tuple that has the last index.  No binding changes except by  *)
(* the effects of the right-hand side and of that one evaluation.          *)
(***************************************************************************)
C7_OtherTargets ==
    (TargetRun /\ (AtTarget \/ PastTarget)) =>
        /\ (AtTarget /\ ~Panicked) => TablesWithX(0) /\ output = <<>>
        /\ Target \in OtherTargets =>
              /\ ~PastTarget
              /\ Panicked => fault = "TypeFault" /\ TablesWithX(RightAdds) /\ output = <<>>
        /\ \A path \in Paths :
              /\ Target = Access(Literal(NestedRight), path)
                    \/ Target = Access(Grouping(Variable("t")), path) =>
                    /\ PastTarget => ValidPath(NestedRight, Front(path))
                    /\ PastTarget \/ Panicked => TablesWithX(RightAdds)
                    /\ Panicked => /\ ~ValidPath(NestedRight, Front(path))
                                   /\ fault \in {"TypeFault", "IndexOutOfRange"}
              /\ Target = Access(Literal(Number(1)), path) =>
                    /\ PastTarget => Len(path) = 1
                    /\ PastTarget \/ Panicked => TablesWithX(RightAdds)
                    /\ Panicked => Len(path) > 1 /\ fault = "TypeFault"
              /\ Target = Access(TupleExpression(<<Increment("x", 1), Num(2)>>), path) =>
                    LET base == Tuple(<<Number(RightAdds + 1), Number(2)>>)
                    IN  /\ PastTarget => ValidPath(base, Front(path))
                        /\ PastTarget \/ Panicked => TablesWithX(RightAdds + 1)
                        /\ Panicked => /\ ~ValidPath(base, Front(path))
                                       /\ fault \in {"TypeFault", "IndexOutOfRange"}
              /\ Target = Access(Grouping(Variable("u")), path) =>
                    /\ ~PastTarget
                    /\ Panicked => fault = "UndefinedVariable" /\ TablesWithX(RightAdds)
              /\ Target = Access(Binary("Add", Variable("x"), Literal(Boolean(TRUE))), path) =>
                    /\ ~PastTarget
                    /\ Panicked => fault = "TypeFault" /\ TablesWithX(RightAdds)
        /\ PastTarget => output = <<Display(RightValue)>> /\ fault = "none"
        /\ Panicked => output = <<>>

(* (x = x + 1, 2).0 = 7 has completed: x was incremented once, 7 printed,  *)
(* and t is as declared.                                                   *)
C7_Witness ==
    /\ TargetRun
    /\ Target = TupleAccess(TupleExpression(<<Increment("x", 1), Num(2)>>), 0)
    /\ PastTarget
    /\ TablesWithX(1)
    /\ output = <<Display(Number(7))>>

(***************************************************************************)
(* Reading a run of one of the logic programs                              *)
(*   var x = 0; var r = left or/and right; read x                          *)
(* from the state, with the value and the effect on x of each operand.     *)
(***************************************************************************)
LogicRun == calls = 1 /\ Len(session) = 1 /\ session[1] \in LogicPrograms
LogicOperation == session[1][2][3][2]
LogicLeft == session[1][2][3][3]
LogicRight == session[1][2][3][4]
LeftValue ==
    CASE LogicLeft[1] = "Literal" -> LogicLeft[2]
      [] LogicLeft = Variable("x") -> Number(0)
      [] LogicLeft = Binary("Equal", Variable("x"), Num(0)) -> Boolean(TRUE)
      [] LogicLeft = Unary("Not", Literal(Boolean(TRUE))) -> Boolean(FALSE)
      [] LogicLeft = Increment("x", 1) -> Number(1)
XAfterLeft == IF LogicLeft = Increment("x", 1) THEN Number(1) ELSE Number(0)
LogicRightValue == IF LogicRight[1] = "Literal" THEN LogicRight[2] ELSE Number(9)
XAfterRight == IF LogicRight[1] = "Literal" THEN XAfterLeft ELSE Number(9)
ShortCircuits ==
    \/ LogicOperation = "Or" /\ LeftValue = Boolean(TRUE)
    \/ LogicOperation = "And" /\ LeftValue = Boolean(FALSE)

(***************************************************************************)
(* C8.  Or returns its left value without evaluating the right operand     *)
(* exactly when the left value is Boolean true, And exactly when it is     *)
(* Boolean false; in every other case, a non-Boolean left value included,  *)
(* the right operand is evaluated (its assignment to x happens) and its    *)
(* value is the result, without a fault: false or "x" is "x".  The only    *)
(* fault is the left operand's own (the undefined variable u).             *)
(***************************************************************************)
C8_ShortCircuit ==
    LogicRun =>
        /\ Panicked =>
              /\ LogicLeft = Variable("u")
              /\ fault = "UndefinedVariable"
              /\ pending = Tail(session[1])
        /\ (Len(pending) <= 1 /\ LogicLeft # Variable("u")) =>
              /\ DOMAIN global_variables = {"x", "r"}
              /\ global_variables["r"] = IF ShortCircuits THEN LeftValue ELSE LogicRightValue
              /\ global_variables["x"] = IF ShortCircuits THEN XAfterLeft ELSE XAfterRight
        /\ Len(pending) <= 1 => LogicLeft # Variable("u")
        /\ (/\ Len(pending) <= 1
            /\ LogicOperation = "Or"
            /\ LogicLeft = Literal(Boolean(FALSE))
            /\ LogicRight = Literal(String(<<120>>)))
              => global_variables["r"] = String(<<120>>)

(* The tuple (1, (2, 3)) or (x = 9) has been evaluated: the result is 9    *)
(* and x is 9.                                                             *)
C8_Witness ==
    /\ LogicRun
    /\ LogicOperation = "Or"
    /\ LogicLeft = Literal(NestedRight)
    /\ pending = <<Read("x")>>
    /\ global_variables = insert(insert(EmptyMap, "x", Number(9)), "r", Number(9))

(***************************************************************************)
(* C9.  A While runs its body once for each evaluation of its condition    *)
(* that yields true and stops at the first that yields false.              *)
(* var i = 0; while (i < n) i = i + 1; read i  (the body also as a block   *)
(* and as the branch of an If) never faults, never takes i past n, and     *)
(* returns with i = n after exactly n runs of the body, which print 1..n.  *)
(* var i = 0; while ((i = i + 1) < n) read i; read i  counts the           *)
(* evaluations of the condition in i: it returns after max(n, 1)           *)
(* evaluations and one run of the body fewer.                              *)
(***************************************************************************)
CountingRun == calls = 1 /\ session[1] \in CountingPrograms
CountingBound == session[1][2][2][4][2][2]
ConditionRun == calls = 1 /\ \E n \in 0..MaxN : session[1] = ConditionCounts(n)
ConditionBound == session[1][2][2][4][2][2]
Lines(n) == [k \in 1..n |-> Display(Number(k))]

C9_WhileCounts ==
    /\ [](CountingRun =>
            /\ ~Panicked
            /\ "i" \in DOMAIN global_variables =>
                  global_variables["i"][2] \in 0..CountingBound
            /\ Returned =>
                  /\ global_variables["i"] = Number(CountingBound)
                  /\ output = Lines(CountingBound) \o <<Display(Number(CountingBound))>>)
    /\ [](ConditionRun =>
            /\ ~Panicked
            /\ Returned =>
                  LET evaluations == IF ConditionBound > 1 THEN ConditionBound ELSE 1
                  IN  /\ global_variables["i"] = Number(evaluations)
                      /\ output = Lines(evaluations - 1) \o <<Display(Number(evaluations))>>)
    /\ (CountingRun \/ ConditionRun) ~> Returned

(* The loop to 3 has returned: i is 3 and the body printed 1, 2, 3. *)
C9_Witness ==
    /\ CountingRun
    /\ CountingBound = 3
    /\ session[1][2][3][1] = "Block"
    /\ Returned
    /\ global_variables["i"] = Number(3)
    /\ Len(output) = 4

(***************************************************************************)
(* Reading a run of one of the If programs                                 *)
(*   var x = 0; if (condition) then_statement [else else_statement]; read x*)
(* from the state.  The then statements set x to 1 (printing 1) or declare *)
(* y; the else statements set x to 2 (printing 2) or declare z.            *)
(***************************************************************************)
IfRun == calls = 1 /\ Len(session) = 1 /\ session[1] \in IfPrograms
IfCondition == session[1][2][2]
IfThen == session[1][2][3]
IfElse == session[1][2][4]
ConditionValue ==
    CASE IfCondition[1] = "Literal" -> IfCondition[2]
      [] IfCondition = Binary("Equal", Variable("x"), Num(0)) -> Boolean(TRUE)
      [] IfCondition = Binary("Less", Variable("x"), Num(0)) -> Boolean(FALSE)
      [] OTHER -> NoValue
PastIf == pending = <<Read("x")>>
OnlyX == insert(EmptyMap, "x", Number(0))
AfterStatement(statement) ==
    IF statement[1] = "VariableDeclaration"
    THEN [globals |-> insert(OnlyX, statement[2], statement[3][2]), lines |-> <<>>]
    ELSE [globals |-> insert(EmptyMap, "x", IF statement = Set("x", 2) THEN Number(2)
                                            ELSE Number(1)),
          lines |-> <<Display(IF statement = Set("x", 2) THEN Number(2) ELSE Number(1))>>]

(***************************************************************************)
(* C10.  An If runs exactly one of its branches or none.  With a true      *)
(* condition only the then-branch takes effect: at no point of the run     *)
(* does an effect of the else-branch (x = 2, the line 2, z) occur; with a  *)
(* false condition only the else-branch, if there is one, and otherwise    *)
(* nothing; a condition that is no Boolean is a type fault with the tables *)
(* and the output as they were before the If.                              *)
(***************************************************************************)
C10_IfRunsOneBranch ==
    IfRun =>
        /\ ConditionValue = Boolean(TRUE) =>
              /\ ~Panicked
              /\ "z" \notin DOMAIN global_variables
              /\ get(global_variables, "x") # Some(Number(2))
              /\ \A k \in 1..Len(output) : output[k] # Display(Number(2))
              /\ PastIf =>
                    /\ global_variables = AfterStatement(IfThen).globals
                    /\ output = AfterStatement(IfThen).lines
                    /\ environments = <<>>
        /\ ConditionValue = Boolean(FALSE) =>
              /\ ~Panicked
              /\ "y" \notin DOMAIN global_variables
              /\ get(global_variables, "x") # Some(Number(1))
              /\ \A k \in 1..Len(output) : output[k] # Display(Number(1))
              /\ environments = <<>>
              /\ PastIf =>
                    IF Len(IfElse) = 0
                    THEN global_variables = OnlyX /\ output = <<>>
                    ELSE /\ global_variables = AfterStatement(IfElse[1]).globals
                         /\ output = AfterStatement(IfElse[1]).lines
        /\ ConditionValue[1] \notin {"Boolean", "NoValue"} =>
              /\ Len(pending) >= 2
              /\ Panicked => /\ fault = "TypeFault"
                             /\ pending = Tail(session[1])
                             /\ global_variables = OnlyX
              /\ output = <<>> /\ environments = <<>>
        /\ ConditionValue = NoValue =>
              /\ Len(pending) >= 2
              /\ Panicked => /\ fault = "UndefinedVariable"
                             /\ pending = Tail(session[1])
                             /\ global_variables = OnlyX
              /\ output = <<>> /\ environments = <<>>

(* x == 0 held: the then-branch declared y, the else-branch x = 2 did not  *)
(* run, and the If has ended.                                              *)
C10_Witness ==
    /\ IfRun
    /\ IfCondition = Binary("Equal", Variable("x"), Num(0))
    /\ IfElse = <<Set("x", 2)>>
    /\ PastIf
    /\ global_variables = insert(OnlyX, "y", Number(1))
    /\ output = <<>>

(***************************************************************************)
(* Reading a run of a caller that calls interpret twice with one table:    *)
(* the first call declares x = 5, or declares x = 5 and assigns 2, or      *)
(* declares x = 1 inside a block only; the second reads x, assigns 9 and   *)
(* reads, or declares x = 6 and reads.                                     *)
(***************************************************************************)
RepeatedRun == session \in Repeated
FirstLeaves ==
    CASE session[1] = <<Declare("x", 5)>> -> insert(EmptyMap, "x", Number(5))
      [] session[1] = <<Declare("x", 5), Set("x", 2)>> -> insert(EmptyMap, "x", Number(2))
      [] OTHER -> EmptyMap
SecondStarts == calls = 2 /\ pending = session[2]
SecondReads ==
    CASE session[2][1] = Set("x", 9) -> Number(9)
      [] session[2][1] = Declare("x", 6) -> Number(6)
      [] OTHER -> FirstLeaves["x"]
SecondNeedsX == session[2][1][1] # "VariableDeclaration"

(***************************************************************************)
(* C11.  Over successive calls of interpret with one global table: the     *)
(* second call starts with the table as the top level of the first call    *)
(* left it (the last value written to x) and with no block table; a read   *)
(* of x in the second call prints that value, or the value the second call *)
(* wrote since; a name the first call declared inside a block only is not  *)
(* there: reading or assigning it in the second call is an                 *)
(* undefined-variable fault.                                               *)
(***************************************************************************)
C11_GlobalsPersistAcrossCalls ==
    RepeatedRun =>
        /\ calls = 1 /\ Returned => global_variables = FirstLeaves /\ environments = <<>>
        /\ SecondStarts => global_variables = FirstLeaves /\ environments = <<>>
        /\ calls = 2 => environments = <<>>
        /\ calls = 2 /\ Returned =>
              /\ "x" \in DOMAIN FirstLeaves \/ ~SecondNeedsX
              /\ get(global_variables, "x") = Some(SecondReads)
              /\ output[Len(output)] = Display(SecondReads)
        /\ calls = 2 /\ Panicked =>
              /\ FirstLeaves = EmptyMap /\ SecondNeedsX
              /\ fault = "UndefinedVariable"
              /\ global_variables = EmptyMap
        /\ ~(calls = 1 /\ Panicked)

(* The first call declared x = 5 and assigned 2; the second call read x    *)
(* and printed 2.                                                          *)
C11_Witness ==
    /\ session = <<<<Declare("x", 5), Set("x", 2)>>, <<Read("x")>>>>
    /\ calls = 2
    /\ Returned
    /\ output = <<Display(Number(2)), Display(Number(2))>>

(* The first call declared x inside a block only; the read of x in the     *)
(* second call has faulted.                                                *)
C11_BlockWitness ==
    /\ session = <<<<Block(<<Declare("x", 1)>>)>>, <<Read("x")>>>>
    /\ calls = 2
    /\ fault = "UndefinedVariable"

(***************************************************************************)
(* Reading a run of one of the branch programs                             *)
(*   var j = 0; { .. { statement; read j } read j .. } read j              *)
(* where statement is an If or a While that declares j directly, or does   *)
(* not declare it (no branch taken, or the branch is a Block).             *)
(***************************************************************************)
BranchRun(depth, statement) == calls = 1 /\ session = <<BranchProgram(depth, statement)>>
RECURSIVE BranchRest(_)
BranchRest(depth) ==
    IF depth = 0 THEN <<Read("j")>>
    ELSE BranchRest(depth - 1) \o <<PopEnvironment, Read("j")>>
AfterBranch(depth) == pending = BranchRest(depth)
BranchDeclares(statement) ==
    CASE statement[1] = "While" -> TRUE
      [] statement[2] = Literal(Boolean(TRUE)) -> statement[3][1] = "VariableDeclaration"
      [] OTHER -> Len(statement[4]) > 0
BranchValue(statement) ==
    CASE statement[1] = "While" -> Number(6)
      [] statement[2] = Literal(Boolean(TRUE)) -> Number(1)
      [] OTHER -> Number(2)
JIs(value) == insert(EmptyMap, "j", value)
TablesAfterBranch(depth, statement) ==
    IF ~BranchDeclares(statement)
    THEN Variables(JIs(Number(0)), [k \in 1..depth |-> EmptyMap])
    ELSE IF depth = 0 THEN Variables(JIs(BranchValue(statement)), <<>>)
    ELSE Variables(JIs(Number(0)),
                   [k \in 1..depth |-> IF k = depth THEN JIs(BranchValue(statement))
                                       ELSE EmptyMap])
LinesAfterBranch(depth, statement) ==
    <<Display(IF BranchDeclares(statement) THEN BranchValue(statement) ELSE Number(0))>>
        \o [k \in 1..depth |->
              Display(IF depth = 0 /\ BranchDeclares(statement)
                      THEN BranchValue(statement) ELSE Number(0))]

(***************************************************************************)
(* C12.  The number of block tables changes only when a Block is entered   *)
(* (one more) and when it ends (one less): no step of an If, a While, a    *)
(* declaration or an expression statement changes it.  A declaration that  *)
(* is the direct branch of an If or the direct body of a While inserts     *)
(* into the table that is innermost where the If or While stands (the      *)
(* global table at the top level) and into no other, and the read that     *)
(* follows the If or While finds the binding; when the branch is a Block   *)
(* the binding is gone after the If.                                       *)
(***************************************************************************)
C12_OnlyBlockOpensScope ==
    /\ [][/\ Len(environments') = Len(environments) + 1
              => Running /\ Head(pending)[1] = "Block"
          /\ Len(environments') = Len(environments) - 1
              => Running /\ Head(pending) = PopEnvironment
          /\ Len(environments') \in {Len(environments) - 1, Len(environments),
                                     Len(environments) + 1}
          /\ Running /\ Head(pending)[1] \in {"If", "While"}
              => /\ Len(environments') = Len(environments)
                 /\ \A k \in 1..Len(environments) :
                        DOMAIN environments'[k] = DOMAIN environments[k]]_vars
    /\ [](\A depth \in 0..MaxDepth, statement \in BranchStatements :
            BranchRun(depth, statement) =>
                /\ ~Panicked
                /\ AfterBranch(depth) => Current = TablesAfterBranch(depth, statement)
                /\ Returned => output = LinesAfterBranch(depth, statement))

(* Inside two blocks the body of the While declared j = 6 in the inner     *)
(* block's table; the loop has ended and the read of j comes next.         *)
C12_Witness ==
    /\ BranchRun(2, While(Binary("Less", Variable("j"), Num(6)), Declare("j", 6)))
    /\ AfterBranch(2)
    /\ environments = <<EmptyMap, JIs(Number(6))>>
    /\ global_variables = JIs(Number(0))

(***************************************************************************)
(* Reading a run of one of the alias programs                              *)
(*   var a = value; b from a; through.path = 99; read a; read b            *)
(* from the state.                                                         *)
(***************************************************************************)
AliasRun == calls = 1 /\ Len(session) = 1 /\ session[1] \in AliasPrograms
AliasValue == session[1][1][3][2]
AliasBody == IF session[1][2][1] = "Block" THEN session[1][2][2] ELSE session[1]
AliasSet == AliasBody[Len(AliasBody) - 2]
RECURSIVE RootOf(_)
RootOf(expression) ==
    IF expression[1] = "TupleAccess" THEN RootOf(expression[2]) ELSE expression
RECURSIVE PathOf(_)
PathOf(expression) ==
    IF expression[1] = "TupleAccess"
    THEN Append(PathOf(expression[2]), expression[3]) ELSE <<>>
AliasThrough == RootOf(AliasSet[2][3])[2]
AliasOther == IF AliasThrough = "a" THEN "b" ELSE "a"
AliasPath == PathOf(AliasSet[2][3])
BeforeAliasSet == Len(pending) >= 3 /\ pending[1] = AliasSet
AfterAliasSet == Len(pending) >= 2 /\ SubSeq(pending, 1, 2) = <<Read("a"), Read("b")>>
AfterAliasReads ==
    Len(output) >= 3 /\ (Len(pending) = 0 \/ Head(pending) = PopEnvironment)

(***************************************************************************)
(* C13.  Bindings share no storage.  Once b has been declared or assigned  *)
(* from a, which holds a tuple, both hold that tuple; a tuple-element      *)
(* assignment through one of them, along an index path of any length,      *)
(* replaces the element in that binding and leaves the other binding the   *)
(* tuple it was, which is what the read of it prints; an assignment that   *)
(* faults leaves both as they were.                                        *)
(***************************************************************************)
C13_NoSharedState ==
    AliasRun =>
        /\ BeforeAliasSet =>
              /\ get_variable(Current, "a") = Some(AliasValue)
              /\ get_variable(Current, "b") = Some(AliasValue)
              /\ Panicked => ~ValidPath(AliasValue, AliasPath)
        /\ Panicked => BeforeAliasSet
        /\ AfterAliasSet =>
              /\ ValidPath(AliasValue, AliasPath)
              /\ get_variable(Current, AliasOther) = Some(AliasValue)
              /\ get_variable(Current, AliasThrough) # Some(AliasValue)
              /\ ElementReplaced(AliasValue, get_variable(Current, AliasThrough)[2],
                                 AliasPath, Number(99))
        /\ AfterAliasReads =>
              LET read(n) == output[IF n = "a" THEN Len(output) - 1 ELSE Len(output)]
              IN  /\ read(AliasOther) = Display(AliasValue)
                  /\ read(AliasThrough) # Display(AliasValue)

(* b was assigned from a = ((1, 2), 3) and b.0.1 = 99 has run: a is        *)
(* printed as it was and b with the new element.                           *)
C13_Witness ==
    /\ AliasRun
    /\ Returned
    /\ session[1][2] = Declare("b", 0)
    /\ global_variables["a"] = NestedLeft
    /\ global_variables["b"] = Tuple(<<Tuple(<<Number(1), Number(99)>>), Number(3)>>)
    /\ output[Len(output) - 1] = Display(NestedLeft)
    /\ output[Len(output)] =
          Display(Tuple(<<Tuple(<<Number(1), Number(99)>>), Number(3)>>))

(***************************************************************************)
(* Reading a run of a nested-assignment program                            *)
(*   var a = 0; var b = 1; a = (b = right); read a; read b                 *)
(* and of an element-order program                                         *)
(*   var t = (1, (2, 3)); t.path = (right-hand assignment to t); read t    *)
(* from the state.  Replaced is the tuple with one element replaced.       *)
(***************************************************************************)
NestedAssignRun == calls = 1 /\ Len(session) = 1 /\ session[1] \in NestedAssignPrograms
NestedInner ==
    IF session[1][3][2][4][1] = "Grouping" THEN session[1][3][2][4][2]
    ELSE session[1][3][2][4]
NestedValue ==
    CASE NestedInner[4][1] = "Literal" -> NestedInner[4][2]
      [] OTHER -> Number(1)

ElementOrderRun == calls = 1 /\ Len(session) = 1 /\ session[1] \in ElementOrderPrograms
OrderPath == PathOf(session[1][2][2][3])
OrderRight == session[1][2][2][4]
RECURSIVE Replaced(_, _, _)
Replaced(value, path, new) ==
    IF Len(path) = 0 THEN new
    ELSE Tuple([value[2] EXCEPT ![Head(path) + 1] = Replaced(@, Tail(path), new)])
RightTargetsElement == OrderRight[3][1] = "TupleAccess"
RightCompletes == ~RightTargetsElement \/ ValidPath(NestedRight, PathOf(OrderRight[3]))
RightResult == OrderRight[4][2]
AfterRight ==
    IF RightTargetsElement
    THEN Replaced(NestedRight, PathOf(OrderRight[3]), RightResult)
    ELSE RightResult
Disjoint(p, q) == ~IsPrefix(p, q) /\ ~IsPrefix(q, p)

(***************************************************************************)
(* C14.  An assignment evaluates its right-hand side first and yields the  *)
(* right-hand value.  After a = (b = v), a and b both hold v and the       *)
(* statement printed v.  A tuple-element assignment to t whose right-hand  *)
(* side assigns to t writes back the value t has after the right-hand side *)
(* with the element replaced by the right-hand value: when the two index   *)
(* paths do not overlap, both new elements are in t afterwards; the        *)
(* statement prints the right-hand value.  When the right-hand side faults *)
(* t is untouched; when the target does not exist in the value t has after *)
(* the right-hand side, the assignment faults and t keeps that value.      *)
(***************************************************************************)
C14_RightHandSideFirst ==
    /\ NestedAssignRun =>
          /\ ~Panicked
          /\ Len(pending) <= 2 =>
                /\ global_variables["a"] = NestedValue
                /\ global_variables["b"] = NestedValue
                /\ output[1] = Display(NestedValue)
          /\ Returned => output = <<Display(NestedValue), Display(NestedValue),
                                    Display(NestedValue)>>
    /\ ElementOrderRun =>
          /\ pending = <<Read("t")>> =>
                /\ ~Panicked
                /\ RightCompletes
                /\ ValidPath(AfterRight, OrderPath)
                /\ global_variables["t"] = Replaced(AfterRight, OrderPath, RightResult)
                /\ output = <<Display(RightResult)>>
                /\ RightTargetsElement /\ Disjoint(OrderPath, PathOf(OrderRight[3])) =>
                      /\ ElementAt(global_variables["t"], OrderPath) = Number(9)
                      /\ ElementAt(global_variables["t"], PathOf(OrderRight[3])) = Number(9)
          /\ Panicked =>
                /\ pending = Tail(session[1])
                /\ output = <<>>
                /\ ~RightCompletes => global_variables["t"] = NestedRight
                /\ RightCompletes =>
                      /\ ~ValidPath(AfterRight, OrderPath)
                      /\ global_variables["t"] = AfterRight

(* t.0 = (t.1 = 9) has run on t = (1, (2, 3)): t is (9, 9). *)
C14_Witness ==
    /\ ElementOrderRun
    /\ OrderPath = <<0>>
    /\ OrderRight = Assign(Access(Variable("t"), <<1>>), Num(9))
    /\ pending = <<Read("t")>>
    /\ global_variables["t"] = Tuple(<<Number(9), Number(9)>>)

(* a = (b = 7) has run: a and b hold 7. *)
C14_NestedWitness ==
    /\ NestedAssignRun
    /\ NestedInner = Assign(Variable("b"), Num(7))
    /\ Returned
    /\ global_variables = insert(insert(EmptyMap, "a", Number(7)), "b", Number(7))

(***************************************************************************)
(* Reading a run of a comparison program  var r = left operation right     *)
(* from the state.                                                         *)
(***************************************************************************)
CompareRun == calls = 1 /\ Len(session) = 1 /\ session[1] \in ComparePrograms
CompareOperation == session[1][1][3][2]
CompareLeft == session[1][1][3][3][2]
CompareRight == session[1][1][3][4][2]
Accepted ==
    /\ CompareLeft[1] = CompareRight[1]
    /\ CompareLeft[1] \in IF CompareOperation \in {"Equal", "NotEqual"}
                          THEN {"Number", "String", "Boolean"}
                          ELSE {"Number", "String"}

(***************************************************************************)
(* C15.  A comparison of two values completes exactly when both are        *)
(* Numbers, both Strings or, for Equal and NotEqual only, both Booleans,   *)
(* and then yields a Boolean (for Equal whether the two are the same       *)
(* value, for NotEqual whether they are not); every other pair (a tuple    *)
(* on either side, two tuples, any mixed pair, two Booleans under an       *)
(* ordering) is a type fault that leaves r undeclared.                     *)
(***************************************************************************)
C15_ComparisonOperandTypes ==
    CompareRun =>
        /\ Returned =>
              /\ Accepted
              /\ DOMAIN global_variables = {"r"}
              /\ IsBoolean(global_variables["r"])
              /\ CompareOperation = "Equal" =>
                    global_variables["r"] = Boolean(CompareLeft[2] = CompareRight[2])
              /\ CompareOperation = "NotEqual" =>
                    global_variables["r"] = Boolean(CompareLeft[2] # CompareRight[2])
        /\ Panicked =>
              /\ ~Accepted
              /\ fault = "TypeFault"
              /\ global_variables = EmptyMap
              /\ pending = session[1]

(* true < false has faulted. *)
C15_Witness ==
    /\ CompareRun
    /\ session[1][1][3] =
          Binary("Less", Literal(Boolean(TRUE)), Literal(Boolean(FALSE)))
    /\ fault = "TypeFault"

(* (1, (2, 3)) == (1, (2, 3)) has faulted. *)
C15_TupleWitness ==
    /\ CompareRun
    /\ session[1][1][3] = Binary("Equal", Literal(NestedRight), Literal(NestedRight))
    /\ fault = "TypeFault"

(* "" <= "x" has completed with true. *)
C15_AcceptedWitness ==
    /\ CompareRun
    /\ session[1][1][3] =
          Binary("LessEqual", Literal(String(<<>>)), Literal(String(<<120>>)))
    /\ Returned
    /\ global_variables["r"] = Boolean(TRUE)

(***************************************************************************)
(* Reading a run of one of the fault programs                              *)
(*   var x = 0; x = 1; statement or { var z = 1; statement }; x = 2; read x*)
(* from the state: the faulting statement, the kind of its fault and       *)
(* what it wrote to x before faulting.                                     *)
(***************************************************************************)
FaultRun == calls = 1 /\ Len(session) = 1 /\ session[1] \in FaultPrograms
FaultInBlock == session[1][3][1] = "Block"
FaultStatement == IF FaultInBlock THEN session[1][3][2][2] ELSE session[1][3]
FaultKind ==
    CASE \E first \in FirstExpressions : FaultStatement \in UndefinedFaults(first)
            -> "UndefinedVariable"
      [] \E first \in FirstExpressions : FaultStatement \in TypeFaults(first)
            -> "TypeFault"
      [] OTHER -> "IndexOutOfRange"
XAtFault ==
    IF session[1] \in FaultProgramsWith(Assign(Variable("x"), Num(5)))
    THEN Number(5) ELSE Number(1)
PendingAtFault ==
    <<FaultStatement>> \o (IF FaultInBlock THEN <<PopEnvironment>> ELSE <<>>)
        \o <<Set("x", 2), Read("x")>>

(***************************************************************************)
(* C16.  A fault ends the run where it happens.  No step follows a fault   *)
(* in any run.  In the fault programs the run never completes, the         *)
(* statements after the faulting one never run (x is never 2, nothing is   *)
(* printed after the line of x = 1), the fault is of the kind of the       *)
(* faulting expression, and at the fault the global table holds what was   *)
(* written before it: x = 1, or x = 5 when the faulting statement assigned *)
(* 5 before it faulted; the faulting statement and all after it are still  *)
(* pending, and a block the fault happened in still has its table.         *)
(***************************************************************************)
C16_FaultAborts ==
    /\ [][fault = "none"]_vars
    /\ [](FaultRun =>
            /\ ~Returned
            /\ get(global_variables, "x") \notin {Some(Number(2)), Some(Number(3))}
            /\ Len(output) <= 1
            /\ "y" \notin DOMAIN global_variables
            /\ Panicked =>
                  /\ fault = FaultKind
                  /\ global_variables = insert(EmptyMap, "x", XAtFault)
                  /\ output = <<Display(Number(1))>>
                  /\ pending = PendingAtFault
                  /\ environments = IF FaultInBlock
                                    THEN <<insert(EmptyMap, "z", Number(1))>>
                                    ELSE <<>>)

(* The condition of an If in a block assigned x = 5 and is no Boolean: the *)
(* run has faulted with x = 5 in the global table and the block's table    *)
(* still there.                                                            *)
C16_Witness ==
    /\ FaultRun
    /\ FaultInBlock
    /\ FaultStatement = If(Assign(Variable("x"), Num(5)), Set("x", 3), <<Set("x", 3)>>)
    /\ fault = "TypeFault"
    /\ global_variables = insert(EmptyMap, "x", Number(5))
    /\ environments = <<insert(EmptyMap, "z", Number(1))>>
    /\ output = <<Display(Number(1))>>

(***************************************************************************)
(* Reading a run of one of the output programs                             *)
(*   var i = 0; while (i < n) i = i + 1;  if (condition) 7 [else 8];       *)
(*   var y = (i = 50); { value }                                           *)
(* from the state.                                                         *)
(***************************************************************************)
OutputRun == calls = 1 /\ Len(session) = 1 /\ session[1] \in OutputPrograms
OutputBound == session[1][2][2][4][2][2]
OutputIf == session[1][3]
BranchLines ==
    IF OutputIf[2] = Literal(Boolean(TRUE)) THEN <<Display(Number(7))>>
    ELSE IF Len(OutputIf[4]) > 0 THEN <<Display(Number(8))>>
    ELSE <<>>
OutputValue == session[1][5][2][1][2][2]
ExpectedLines == Lines(OutputBound) \o BranchLines \o <<Display(OutputValue)>>

(***************************************************************************)
(* C17.  In every run, a step of an expression statement that completes    *)
(* appends exactly one line, the text of the value the expression yields   *)
(* in the state of the step, and a step of any other kind (a declaration,  *)
(* a block's entry or end, an If, a While, a fault, the start of a call)   *)
(* leaves the output as it is.  In the output programs the lines are, in   *)
(* order: one per run of the loop body (n lines for n runs), the line of   *)
(* the branch of the If that was taken and none of the other, no line for  *)
(* the declaration, and the line of the expression statement in the block; *)
(* at every point of the run the output is a prefix of these.              *)
(***************************************************************************)
C17_OneLinePerExpressionStatement ==
    /\ [][IF Running /\ Head(pending)[1] = "Expression" /\ fault' = "none"
          THEN output' =
                  Append(output,
                         Display(interpret_expression(Head(pending)[2], Current).value))
          ELSE output' = output]_vars
    /\ [](OutputRun =>
            /\ ~Panicked
            /\ IsPrefix(output, ExpectedLines)
            /\ Returned => output = ExpectedLines)

(* The loop body ran three times, the else-branch of the If once, the      *)
(* declaration printed nothing and the block printed (1, (2, 3)).          *)
C17_Witness ==
    /\ OutputRun
    /\ Returned
    /\ output = <<Display(Number(1)), Display(Number(2)), Display(Number(3)),
                  Display(Number(8)), Display(NestedRight)>>
    /\ global_variables["y"] = Number(50)

(***************************************************************************)
(* Reading a run of one of the tuple-order programs                        *)
(*   var x = 0; var t = (e1, .., ek); read x                               *)
(* from the state.  LeftToRight walks the element expressions from the     *)
(* first on, x being the number x holds: the values so far, x after them,  *)
(* and whether the walk got past every element (u is undefined).           *)
(***************************************************************************)
TupleOrderRun == calls = 1 /\ Len(session) = 1 /\ session[1] \in TupleOrderPrograms
OrderElements == session[1][2][3][2]
ElementYields(expression, x) ==
    CASE expression = Increment("x", 1) -> x + 1
      [] expression = Double("x") -> 2 * x
      [] expression = Num(7) -> 7
      [] OTHER -> x
ElementLeaves(expression, x) ==
    CASE expression = Increment("x", 1) -> x + 1
      [] expression = Double("x") -> 2 * x
      [] OTHER -> x
RECURSIVE LeftToRight(_, _, _)
LeftToRight(expressions, x, values) ==
    IF Len(expressions) = 0 THEN [completes |-> TRUE, x |-> x, values |-> values]
    ELSE IF Head(expressions) = Variable("u")
         THEN [completes |-> FALSE, x |-> x, values |-> values]
    ELSE LeftToRight(Tail(expressions), ElementLeaves(Head(expressions), x),
                     Append(values, Number(ElementYields(Head(expressions), x))))
OrderExpected == LeftToRight(OrderElements, 0, <<>>)

(***************************************************************************)
(* C18.  A tuple expression evaluates its elements from the first to the   *)
(* last: the i-th element of the tuple is the value of the i-th expression *)
(* in the state the expressions before it left, the assignments among the  *)
(* elements take effect in that order, and the tuple has as many elements  *)
(* as there are expressions (none for none).  When an element faults, the  *)
(* effects of the elements before it have happened, those of the elements  *)
(* after it have not, and no tuple is made.                                *)
(***************************************************************************)
C18_TupleLeftToRight ==
    TupleOrderRun =>
        /\ pending = <<Read("x")>> =>
              /\ ~Panicked
              /\ OrderExpected.completes
              /\ global_variables["t"] = Tuple(OrderExpected.values)
              /\ Len(global_variables["t"][2]) = Len(OrderElements)
              /\ global_variables["x"] = Number(OrderExpected.x)
        /\ Panicked =>
              /\ ~OrderExpected.completes
              /\ fault = "UndefinedVariable"
              /\ pending = Tail(session[1])
              /\ global_variables = insert(EmptyMap, "x", Number(OrderExpected.x))
        /\ Returned => OrderExpected.completes

(* (x = x + 1, x = x * 2, x) has been evaluated with x = 0: the tuple is   *)
(* (1, 2, 2) and x is 2.                                                   *)
C18_Witness ==
    /\ TupleOrderRun
    /\ OrderElements = <<Increment("x", 1), Double("x"), Variable("x")>>
    /\ pending = <<Read("x")>>
    /\ global_variables["t"] = Tuple(<<Number(1), Number(2), Number(2)>>)
    /\ global_variables["x"] = Number(2)

(***************************************************************************)
(* The Blocks the run is inside of are the PopEnvironment items of         *)
(* pending; the run stands between two top-level statements when pending   *)
(* is what is left of the statement list of the call.                      *)
(***************************************************************************)
OpenBlocks == Cardinality({k \in 1..Len(pending) : pending[k] = PopEnvironment})
IsSuffix(s, t) == Len(s) <= Len(t) /\ SubSeq(t, Len(t) - Len(s) + 1, Len(t)) = s
BetweenTopLevel == calls > 0 /\ IsSuffix(pending, program)
NestingRun == calls = 1 /\ Len(session) = 1 /\ session[1] \in NestingPrograms

(***************************************************************************)
(* C19.  The scope stack is balanced.  At every point of every run there   *)
(* are as many block tables as Blocks the run is inside of, so a statement *)
(* that completes, whatever it nests, leaves as many tables as it found;   *)
(* between two top-level statements of a call, and when the call returns,  *)
(* there is no block table; and a declaration that runs as a top-level     *)
(* statement puts its name into the global table.  In the nesting programs *)
(* the run completes, the declaration that follows the nested statement    *)
(* lands in the global table, and v is in the global table exactly when    *)
(* its declaration is inside no Block.                                     *)
(***************************************************************************)
C19_ScopeStackBalanced ==
    /\ [](Len(environments) = OpenBlocks)
    /\ [](BetweenTopLevel => environments = <<>>)
    /\ [][(/\ BetweenTopLevel /\ Running
           /\ Head(pending)[1] = "VariableDeclaration"
           /\ fault' = "none")
          => /\ environments' = <<>>
             /\ Head(pending)[2] \in DOMAIN global_variables'
             /\ global_variables'[Head(pending)[2]] =
                   interpret_expression(Head(pending)[3], Current).value
             /\ BetweenTopLevel']_vars
    /\ [](NestingRun =>
            /\ ~Panicked
            /\ Returned =>
                  /\ environments = <<>>
                  /\ global_variables["w"] = Number(2)
                  /\ "v" \in DOMAIN global_variables <=> DeclaresHere(session[1][2], "v"))

(* A declaration of v inside a While inside an If, in no Block, has run    *)
(* at the top level: v and the declaration after it are in the global      *)
(* table and the call has returned with no block table.                    *)
C19_Witness ==
    /\ NestingRun
    /\ session[1][2] =
          If(Literal(Boolean(TRUE)),
             While(CountsEvaluations, Declare("v", 1)), <<>>)
    /\ Returned
    /\ environments = <<>>
    /\ global_variables =
          insert(insert(insert(EmptyMap, "c", Number(MaxDepth + 1)), "v", Number(1)),
                 "w", Number(2))

(* Inside the Block that is the body of a While, in its second run, there  *)
(* is one block table, which holds v.                                      *)
C19_NestedWitness ==
    /\ NestingRun
    /\ session[1][2] = While(CountsEvaluations, Block(<<Declare("v", 1)>>))
    /\ environments = <<insert(EmptyMap, "v", Number(1))>>
    /\ global_variables["c"] = Number(2)

(***************************************************************************)
(* The fault of walking an index path through a value: a value that is no  *)
(* tuple met with indices left is a type fault, an index at or beyond the  *)
(* arity an index-out-of-range fault.                                      *)
(***************************************************************************)
RECURSIVE FaultOfWalk(_, _)
FaultOfWalk(value, path) ==
    IF Len(path) = 0 THEN "none"
    ELSE IF value[1] # "Tuple" THEN "TypeFault"
    ELSE IF Head(path) >= Len(value[2]) THEN "IndexOutOfRange"
    ELSE FaultOfWalk(value[2][Head(path) + 1], Tail(path))

(***************************************************************************)
(* C20.  A tuple-element assignment whose index path does not exist in the *)
(* value of its root variable faults and changes no binding.  With a       *)
(* literal right-hand side, at the top level and in blocks: the step       *)
(* faults (a type fault where the path meets a value that is no tuple, an  *)
(* index-out-of-range fault where an index is at or beyond the arity) and  *)
(* every table, the output and the pending statements are as before the    *)
(* step.  With a right-hand side that assigns to the root variable t: at   *)
(* the fault t holds exactly the value the right-hand side left.           *)
(***************************************************************************)
C20_FaultingElementAssignment ==
    /\ [][\A path \in Paths :
            (/\ Running
             /\ Head(pending) = SetElement(path)
             /\ ~HeldNowhere("t")
             /\ ~ValidPath(TableOf(global_variables, environments, FirstHolder("t"))["t"],
                           path))
            => /\ fault' = FaultOfWalk(TableOf(global_variables, environments,
                                               FirstHolder("t"))["t"], path)
               /\ fault' \in {"TypeFault", "IndexOutOfRange"}
               /\ global_variables' = global_variables
               /\ environments' = environments
               /\ output' = output
               /\ pending' = pending]_vars
    /\ [](ElementOrderRun /\ RightCompletes /\ ~ValidPath(AfterRight, OrderPath) =>
            /\ ~Returned
            /\ pending # <<Read("t")>>
            /\ Panicked =>
                  /\ fault = FaultOfWalk(AfterRight, OrderPath)
                  /\ fault \in {"TypeFault", "IndexOutOfRange"}
                  /\ global_variables = insert(EmptyMap, "t", AfterRight)
                  /\ output = <<>>)

(* t.1.0 = (t.1 = 9) on t = (1, (2, 3)): the right-hand side made t        *)
(* (1, 9), the walk met the number 9 at index 1 and faulted; t is (1, 9).  *)
C20_Witness ==
    /\ ElementOrderRun
    /\ OrderPath = <<1, 0>>
    /\ OrderRight = Assign(Access(Variable("t"), <<1>>), Num(9))
    /\ fault = "TypeFault"
    /\ global_variables = insert(EmptyMap, "t", Tuple(<<Number(1), Number(9)>>))

(* t.2 = 99 in a block on the global t = (1, (2, 3)): index 2 is beyond    *)
(* the arity, the step faulted and t is as it was.                         *)
C20_IndexWitness ==
    /\ session = <<<<VariableDeclaration("t", Literal(NestedRight)),
                     Block(<<SetElement(<<2>>), Read("t")>>), Read("t")>>>>
    /\ fault = "IndexOutOfRange"
    /\ global_variables = insert(EmptyMap, "t", NestedRight)
    /\ environments = <<EmptyMap>>

====
